---- MODULE Spec2Model ----
(***************************************************************************)
(* Model of the urbana-chat real-time layer.                               *)
(*                                                                         *)
(* The WebSocket server (src/server.js) keeps two in-memory registries,    *)
(* activeConnections (socket id -> userId) and chatRooms (chatId -> Set of *)
(* userIds), next to the transport's own room subscriptions (socket.rooms  *)
(* of socket.io).  Every socket.io handler runs to completion on the Node  *)
(* event loop, so each handler is one atomic action here.                  *)
(*                                                                         *)
(* Observation variables: lastOp names the handler that ran last and       *)
(* emitted holds, per socket, the events that handler delivered to it.     *)
(* spoofed is a history variable: some join-chat or leave-chat so far      *)
(* carried a userId other than the one its socket connected with.          *)
(***************************************************************************)
EXTENDS Integers, Sequences, FiniteSets, TLC

VARIABLES connected, handshake, activeConnections, chatRooms, socketRooms,
          now, lastOp, emitted, spoofed

vars == <<connected, handshake, activeConnections, chatRooms, socketRooms,
          now, lastOp, emitted, spoofed>>

(* inbox holds, per live socket, every event delivered to it since it      *)
(* connected, in the order the server wrote them to its connection.        *)
VARIABLES inbox

orderVars == <<inbox>>

----------------------------------------------------------------------------
(* Bounds *)

(* The number of socket ids, and the number of stamping handlers a run     *)
(* may execute.                                                            *)
NumSockets == 2
MaxClock == 3

Sockets == 1..NumSockets

(* The chat ids a request may name.                                        *)
Rooms == {"r1", "r2"}

(* The length of the generated user identifiers (longer than the 8        *)
(* characters the display label keeps).                                    *)
IdLen == 9

(* userIds are strings; a string is a tuple of character codes.           *)
UserId(n) == [i \in 1..IdLen |-> IF i = 1 THEN n ELSE i]
Users == {UserId(1), UserId(2)}

(* An absent (undefined or empty, hence falsy) userId.                     *)
NoUser == <<>>
NoRoom == "none"

(* Message contents a client may submit; "" is the empty content.          *)
Contents == {"", "hi"}

(* The type field of a send-message payload: absent, or given.             *)
NoType == "undefined"
TypeInputs == {NoType, "image"}

----------------------------------------------------------------------------
(* Helpers *)

Min(a, b) == IF a < b THEN a ELSE b

(* String.prototype.slice(0, 8) *)
Slice8(str) == SubSeq(str, 1, Min(8, Len(str)))

(* `User ${userId.slice(0, 8)}` *)
UserName(userId) == <<"User ">> \o Slice8(userId)

(* new Date().toISOString(): the instant, rendered; the rendering is       *)
(* injective and is kept as the instant itself.                            *)
Timestamp(t) == t

(* `msg_${Date.now()}_${Math.random()...}`: the clock advances with every  *)
(* stamping handler, which already separates the identifiers.              *)
MessageId(t) == <<"msg", t>>

(* const { ..., type = 'text' } = messageData *)
DefaultType(type) == IF type = NoType THEN "text" ELSE type

NoEvents == [t \in Sockets |-> <<>>]

(* The sockets subscribed to room chatId in the transport adapter.         *)
InRoom(sr, chatId) == {t \in Sockets : chatId \in sr[t]}

(* Mutant of IoTo: io.emit, a broadcast to every connected socket.         *)
IoEmit(sr, chatId) == connected

(* io.to(chatId): every socket subscribed to chatId.                       *)
IoTo(sr, chatId) == InRoom(sr, chatId)

(* Mutant of SocketTo: io.to(chatId), which does not except the sender.    *)
SocketToWithSender(s, sr, chatId) == InRoom(sr, chatId)

(* socket.to(chatId): every socket subscribed to chatId but the sender.    *)
SocketTo(s, sr, chatId) == InRoom(sr, chatId) \ {s}

(* .emit(event, payload) on a broadcast operator with the given targets.   *)
Emit(em, targets, ev) ==
  [t \in Sockets |-> IF t \in targets THEN Append(em[t], ev) ELSE em[t]]

UserJoined(userId, t) ==
  [kind |-> "user-joined",
   payload |-> [userId |-> userId, userName |-> UserName(userId),
                timestamp |-> Timestamp(t)]]

UserLeft(userId, t) ==
  [kind |-> "user-left",
   payload |-> [userId |-> userId, timestamp |-> Timestamp(t)]]

NewMessage(chatId, userId, content, type, t) ==
  [kind |-> "new-message",
   payload |-> [id |-> MessageId(t), chatId |-> chatId, userId |-> userId,
                content |-> content, type |-> DefaultType(type),
                timestamp |-> Timestamp(t), isFromAgent |-> FALSE]]

(* Mutant of Typing: the flag is not cleared by user-stopped-typing.       *)
TypingAlwaysOn(kind, userId, isTyping, t) ==
  [kind |-> kind,
   payload |-> [userId |-> userId, isTyping |-> TRUE,
                timestamp |-> Timestamp(t)]]

Typing(kind, userId, isTyping, t) ==
  [kind |-> kind,
   payload |-> [userId |-> userId, isTyping |-> isTyping,
                timestamp |-> Timestamp(t)]]

Op(kind, s, chatId, userId) ==
  [kind |-> kind, socket |-> s, chatId |-> chatId, userId |-> userId]

----------------------------------------------------------------------------
(* chatRooms: a Map from chatId to a Set of userIds, kept as a function    *)
(* whose domain is the set of keys.                                        *)

(* Mutant of MapDelete: the key is kept.                                   *)
MapDeleteNothing(m, k) == m

MapDelete(m, k) == [x \in DOMAIN m \ {k} |-> m[x]]

MapSet(m, k, v) == [x \in DOMAIN m \cup {k} |-> IF x = k THEN v ELSE m[x]]

(* join-chat: create the Set if absent, then add userId.                   *)
JoinTracking(cr, chatId, userId) ==
  LET cr1 == IF chatId \notin DOMAIN cr THEN MapSet(cr, chatId, {}) ELSE cr
  IN  MapSet(cr1, chatId, cr1[chatId] \cup {userId})

(* Mutant of LeaveTracking: the handler without its size === 0 test.       *)
LeaveTrackingKeepEmpty(cr, chatId, userId) ==
  IF chatId \in DOMAIN cr
    THEN MapSet(cr, chatId, cr[chatId] \ {userId})
    ELSE cr

(* leave-chat: delete userId from the room's Set if the room is known,     *)
(* and delete the room when its Set is empty.                              *)
LeaveTracking(cr, chatId, userId) ==
  IF chatId \in DOMAIN cr
    THEN LET cr1 == MapSet(cr, chatId, cr[chatId] \ {userId})
         IN  IF Cardinality(cr1[chatId]) = 0 THEN MapDelete(cr1, chatId)
                                             ELSE cr1
    ELSE cr

(* Mutant of RoomsOfUser: the forEach without its users.has(userId) test.  *)
RoomsOfAnyone(cr, userId) == DOMAIN cr

(* disconnect: the rooms whose Set has userId.                             *)
RoomsOfUser(cr, userId) == {r \in DOMAIN cr : userId \in cr[r]}

(* Mutant of RemoveUser: the forEach without its users.size === 0 test.    *)
RemoveUserKeepEmpty(cr, userId) == [r \in DOMAIN cr |-> cr[r] \ {userId}]

(* disconnect: chatRooms after the forEach has removed userId from every   *)
(* Set that has it and deleted the rooms left empty.                       *)
RemoveUser(cr, userId) ==
  LET keep == {r \in DOMAIN cr :
                 ~(userId \in cr[r] /\ Cardinality(cr[r] \ {userId}) = 0)}
  IN  [r \in keep |-> cr[r] \ {userId}]

(* disconnect: the user-left emits of the forEach, one per room that has   *)
(* userId.  The rooms are visited in a fixed order; the Map's insertion    *)
(* order is not observable, a socket being subscribed to at most one room. *)
RECURSIVE EmitLeftRooms(_, _, _, _, _, _)
EmitLeftRooms(em, s, sr, rooms, userId, t) ==
  IF rooms = {} THEN em
  ELSE LET r == CHOOSE x \in rooms : TRUE
       IN  EmitLeftRooms(Emit(em, SocketTo(s, sr, r), UserLeft(userId, t)),
                         s, sr, rooms \ {r}, userId, t)

(* Array.from(set): the members as a list.                                 *)
RECURSIVE ArrayFrom(_)
ArrayFrom(set) ==
  IF set = {} THEN <<>>
  ELSE LET u == CHOOSE x \in set : \A y \in set : x[1] <= y[1]
       IN  <<u>> \o ArrayFrom(set \ {u})

----------------------------------------------------------------------------
(* Initial state: the server has started, nobody is connected.             *)

ServerInit ==
  /\ connected = {}
  /\ handshake = [s \in Sockets |-> NoUser]
  /\ activeConnections = [s \in {} |-> NoUser]
  /\ chatRooms = [r \in {} |-> {}]
  /\ socketRooms = [s \in Sockets |-> {}]
  /\ now = 0
  /\ lastOp = Op("init", 0, NoRoom, NoUser)
  /\ emitted = NoEvents
  /\ spoofed = FALSE

----------------------------------------------------------------------------
(* Handlers *)

(* io.on('connection'): a new socket, with or without a userId in its      *)
(* handshake query.                                                        *)
Connection(s, userId) ==
  /\ s \notin connected
  /\ connected' = connected \cup {s}
  /\ handshake' = [handshake EXCEPT ![s] = userId]
  /\ activeConnections' =
       IF userId # NoUser THEN MapSet(activeConnections, s, userId)
                          ELSE activeConnections
  /\ lastOp' = Op("connection", s, NoRoom, userId)
  /\ emitted' = NoEvents
  /\ UNCHANGED <<chatRooms, socketRooms, now, spoofed>>

(* socket.on('join-chat', ({ chatId, userId }) => ...) *)
JoinChat(s, chatId, userId) ==
  /\ s \in connected
  /\ now < MaxClock
  /\ LET left == [socketRooms EXCEPT ![s] = {}]
         joined == [left EXCEPT ![s] = @ \cup {chatId}]
     IN  /\ socketRooms' = joined
         /\ chatRooms' = JoinTracking(chatRooms, chatId, userId)
         /\ emitted' = Emit(NoEvents, SocketTo(s, joined, chatId),
                            UserJoined(userId, now))
  /\ now' = now + 1
  /\ lastOp' = Op("join-chat", s, chatId, userId)
  /\ spoofed' = (spoofed \/ userId # handshake[s])
  /\ UNCHANGED <<connected, handshake, activeConnections>>

(* socket.on('leave-chat', ({ chatId, userId }) => ...) *)
LeaveChat(s, chatId, userId) ==
  /\ s \in connected
  /\ now < MaxClock
  /\ LET left == [socketRooms EXCEPT ![s] = @ \ {chatId}]
     IN  /\ socketRooms' = left
         /\ chatRooms' = LeaveTracking(chatRooms, chatId, userId)
         /\ emitted' = Emit(NoEvents, SocketTo(s, left, chatId),
                            UserLeft(userId, now))
  /\ now' = now + 1
  /\ lastOp' = Op("leave-chat", s, chatId, userId)
  /\ spoofed' = (spoofed \/ userId # handshake[s])
  /\ UNCHANGED <<connected, handshake, activeConnections>>

(* socket.on('send-message', (messageData) => ...) *)
SendMessage(s, chatId, userId, content, type) ==
  /\ s \in connected
  /\ now < MaxClock
  /\ emitted' = Emit(NoEvents, IoTo(socketRooms, chatId),
                     NewMessage(chatId, userId, content, type, now))
  /\ now' = now + 1
  /\ lastOp' = Op("send-message", s, chatId, userId)
  /\ UNCHANGED <<connected, handshake, activeConnections, chatRooms,
                 socketRooms, spoofed>>

(* socket.on('user-typing', ({ chatId, userId }) => ...) *)
UserTyping(s, chatId, userId) ==
  /\ s \in connected
  /\ now < MaxClock
  /\ emitted' = Emit(NoEvents, SocketTo(s, socketRooms, chatId),
                     Typing("user-typing", userId, TRUE, now))
  /\ now' = now + 1
  /\ lastOp' = Op("user-typing", s, chatId, userId)
  /\ UNCHANGED <<connected, handshake, activeConnections, chatRooms,
                 socketRooms, spoofed>>

(* socket.on('user-stopped-typing', ({ chatId, userId }) => ...) *)
UserStoppedTyping(s, chatId, userId) ==
  /\ s \in connected
  /\ now < MaxClock
  /\ emitted' = Emit(NoEvents, SocketTo(s, socketRooms, chatId),
                     Typing("user-stopped-typing", userId, FALSE, now))
  /\ now' = now + 1
  /\ lastOp' = Op("user-stopped-typing", s, chatId, userId)
  /\ UNCHANGED <<connected, handshake, activeConnections, chatRooms,
                 socketRooms, spoofed>>

(* Mutant of GetOnlineUsers: the lookup creates the missing room entry.    *)
GetOnlineUsersCreatingRoom(s, chatId) ==
  /\ s \in connected
  /\ LET onlineUsers == IF chatId \in DOMAIN chatRooms THEN chatRooms[chatId]
                                                       ELSE {}
     IN  emitted' = Emit(NoEvents, {s},
                         [kind |-> "online-users",
                          payload |-> [chatId |-> chatId,
                                       users |-> ArrayFrom(onlineUsers),
                                       count |-> Cardinality(onlineUsers)]])
  /\ chatRooms' = IF chatId \in DOMAIN chatRooms THEN chatRooms
                  ELSE MapSet(chatRooms, chatId, {})
  /\ lastOp' = Op("get-online-users", s, chatId, NoUser)
  /\ UNCHANGED <<connected, handshake, activeConnections,
                 socketRooms, now, spoofed>>

(* socket.on('get-online-users', ({ chatId }) => ...) *)
GetOnlineUsers(s, chatId) ==
  /\ s \in connected
  /\ LET onlineUsers == IF chatId \in DOMAIN chatRooms THEN chatRooms[chatId]
                                                       ELSE {}
     IN  emitted' = Emit(NoEvents, {s},
                         [kind |-> "online-users",
                          payload |-> [chatId |-> chatId,
                                       users |-> ArrayFrom(onlineUsers),
                                       count |-> Cardinality(onlineUsers)]])
  /\ lastOp' = Op("get-online-users", s, chatId, NoUser)
  /\ UNCHANGED <<connected, handshake, activeConnections, chatRooms,
                 socketRooms, now, spoofed>>

(* socket.on('disconnect', () => ...): socket.io has already removed the   *)
(* socket from all its rooms when the handler runs.                        *)
Disconnect(s) ==
  /\ s \in connected
  /\ s \in DOMAIN activeConnections => now < MaxClock
  /\ connected' = connected \ {s}
  /\ handshake' = [handshake EXCEPT ![s] = NoUser]
  /\ LET gone == [socketRooms EXCEPT ![s] = {}]
     IN  /\ socketRooms' = gone
         /\ IF s \in DOMAIN activeConnections
              THEN LET userId == activeConnections[s]
                   IN  /\ chatRooms' = RemoveUser(chatRooms, userId)
                       /\ emitted' = EmitLeftRooms(NoEvents, s, gone,
                                       RoomsOfUser(chatRooms, userId),
                                       userId, now)
                       /\ activeConnections' = MapDelete(activeConnections, s)
                       /\ now' = now + 1
              ELSE /\ emitted' = NoEvents
                   /\ UNCHANGED <<chatRooms, activeConnections, now>>
  /\ lastOp' = Op("disconnect", s, NoRoom,
                  IF s \in DOMAIN activeConnections THEN activeConnections[s]
                                                    ELSE NoUser)
  /\ UNCHANGED spoofed

(* The fallback message route (app/api/web/chats/route.ts) and the         *)
(* ChatView component with the useWebSocket hook (unnamed/part_001,        *)
(* next.config.js), for one open room and one user.                        *)

VARIABLES
  store,        \* route.ts: let messages = [] (all chats)
  aiTimers,     \* route.ts: pending setTimeout callbacks of POST
  replyTo,      \* history: which stored envelope an agent reply answers
  messages,     \* ChatView: the transcript
  input,        \* ChatView: the input field
  loading,      \* ChatView: the loading flag
  error,        \* ChatView: the error notice
  isConnected,  \* useWebSocket: isConnected
  hookSocket,   \* useWebSocket: socket !== null
  wsOut,        \* packets the hook emitted on the current session
  sends,        \* one entry per sendMessage call: where it is suspended
  sendCount,    \* number of sendMessage calls that passed the guard
  poll          \* the baseline fetchMessages call in flight, if any

viewVars == <<store, aiTimers, replyTo, messages, input, loading, error,
              isConnected, hookSocket, wsOut, sends, sendCount, poll>>

MaxSends == 1

SendIds == 1..MaxSends

(* The chatId and userId props of the open ChatView. *)
OpenChat == "r1"

OpenUser == UserId(1)

Inputs == {" ", "hi"}

NoError == "null"

(* String.prototype.trim on the inputs used. *)
Trim(str) == IF str = " " THEN "" ELSE str

(* `msg_${Date.now()}_${Math.random()...}` of the k-th send. *)
LocalId(k) == <<"msg", k, "client">>

(* Math.random().toString(36).substring(7) of the n-th stored envelope. *)
RouteId(n) == <<"rnd", n>>

NoId == <<>>

(* v || d *)
OrElse(msg, field, d) ==
  IF field \in DOMAIN msg /\ msg[field] \notin {"", "undefined"}
  THEN msg[field] ELSE d

(* { ...msg, field: msg.field || d } *)
WithDefault(msg, field, d) ==
  [f \in DOMAIN msg \cup {field} |->
     IF f = field THEN OrElse(msg, field, d) ELSE msg[f]]

(* route.ts POST: newMessage *)
RouteMessage(n, chatId, content, userId) ==
  [id |-> RouteId(n), chatId |-> chatId, content |-> content,
   isFromAgent |-> FALSE, status |-> "sent", type |-> "text",
   userId |-> userId]

(* userId: 'ai' *)
AiUser == <<0, 0>>

GenerateAIResponse(content) == <<"reply", content>>

(* Mutant of AiResponse: the reply is filed under another chat.            *)
AiResponseElsewhere(n, chatId, content) ==
  [id |-> RouteId(n), chatId |-> "elsewhere",
   content |-> GenerateAIResponse(content),
   isFromAgent |-> TRUE, status |-> "delivered", type |-> "text",
   userId |-> AiUser]

(* route.ts POST: aiResponse *)
AiResponse(n, chatId, content) ==
  [id |-> RouteId(n), chatId |-> chatId,
   content |-> GenerateAIResponse(content),
   isFromAgent |-> TRUE, status |-> "delivered", type |-> "text",
   userId |-> AiUser]

(* Mutant of RouteGET: the list is returned without the filter.            *)
RouteGETUnfiltered(st, chatId) ==
  [i \in 1..Len(st) |-> WithDefault(st[i], "status", "delivered")]

(* route.ts GET: filter by chatId, then default the status. *)
RouteGET(st, chatId) ==
  LET chatMessages == SelectSeq(st, LAMBDA m : m.chatId = chatId)
  IN  [i \in 1..Len(chatMessages) |->
         WithDefault(chatMessages[i], "status", "delivered")]

(* ChatView sendMessage: newMessage *)
OptimisticMessage(k, content) ==
  [id |-> LocalId(k), content |-> content, isFromAgent |-> FALSE,
   status |-> "sending", type |-> "text", reactions |-> <<>>]

(* Mutant of FormatMessages: the last fetched entry is not shown.          *)
FormatMessagesWithoutLast(list) == SubSeq(list, 1, Len(list) - 1)

(* ChatView fetchMessages: formattedMessages, which replace the transcript *)
(* (reactions default to []).                                              *)
FormatMessages(list) ==
  [i \in 1..Len(list) |->
     LET m == WithDefault(WithDefault(list[i], "status", "delivered"),
                          "type", "text")
     IN  [f \in DOMAIN m \cup {"reactions"} |->
            IF f = "reactions"
            THEN (IF "reactions" \in DOMAIN m THEN m.reactions ELSE <<>>)
            ELSE m[f]]]

(* Mutant of MarkSent: the entry is left in 'sending'.                     *)
MarkSentNever(prev, id) == prev

(* prev.map(msg => msg.id === messageId ? { ...msg, status: 'sent' } : msg) *)
MarkSent(prev, id) ==
  [i \in 1..Len(prev) |->
     IF prev[i].id = id
     THEN [f \in DOMAIN prev[i] |-> IF f = "status" THEN "sent"
                                                     ELSE prev[i][f]]
     ELSE prev[i]]

(* Mutant of RemoveMessage: the optimistic entry stays.                    *)
RemoveMessageNever(prev, id) == prev

(* prev.filter(msg => msg.id !== messageId) *)
RemoveMessage(prev, id) == SelectSeq(prev, LAMBDA m : m.id # id)

(* Mutant of HookSendMessage: the packet is emitted twice.                 *)
HookSendMessageTwice(out, sock, conn, chatId, userId, content) ==
  IF sock /\ conn /\ chatId # ""
  THEN out \o << [event |-> "send-message", chatId |-> chatId,
                  userId |-> userId, content |-> content, type |-> "text"],
                 [event |-> "send-message", chatId |-> chatId,
                  userId |-> userId, content |-> content, type |-> "text"] >>
  ELSE out

(* useWebSocket sendMessage: the packet, if the hook emits one.            *)
HookSendMessage(out, sock, conn, chatId, userId, content) ==
  IF sock /\ conn /\ chatId # ""
  THEN Append(out, [event |-> "send-message", chatId |-> chatId,
                    userId |-> userId, content |-> content,
                    type |-> "text"])
  ELSE out

Idle == [pc |-> "idle", currentInput |-> "", envelope |-> NoId,
         ok |-> FALSE, list |-> <<>>]

NoPoll == [pc |-> "idle", ok |-> FALSE, list |-> <<>>]

ViewInit ==
  /\ store = <<>>
  /\ aiTimers = {}
  /\ replyTo = {}
  /\ messages = <<>>
  /\ input = ""
  /\ loading = FALSE
  /\ error = NoError
  /\ isConnected = FALSE
  /\ hookSocket = FALSE
  /\ wsOut = <<>>
  /\ sends = [k \in SendIds |-> Idle]
  /\ sendCount = 0
  /\ poll = NoPoll

routeVars == <<store, aiTimers, replyTo>>

hookVars == <<isConnected, hookSocket, wsOut>>

(* useWebSocket effect (43-111): the previous socket is closed, which      *)
(* fires its 'disconnect' handler, and a new socket is created.            *)
HookEffect ==
  /\ hookSocket' = TRUE
  /\ isConnected' = FALSE
  /\ wsOut' = <<>>
  /\ UNCHANGED <<routeVars, messages, input, loading, error, sends,
                 sendCount, poll>>

(* Mutant of ConnectEmits: the connect handler without its emit.           *)
ConnectEmitsNothing(chatId, userId) == <<>>

(* if (chatId) newSocket.emit('join-chat', { chatId, userId }) *)
ConnectEmits(chatId, userId) ==
  IF chatId # ""
  THEN <<[event |-> "join-chat", chatId |-> chatId, userId |-> userId]>>
  ELSE <<>>

(* newSocket.on('connect'): join-chat is emitted for the open room.        *)
HookConnect ==
  /\ hookSocket
  /\ ~isConnected
  /\ isConnected' = TRUE
  /\ wsOut' = ConnectEmits(OpenChat, OpenUser)
  /\ UNCHANGED <<routeVars, messages, input, loading, error, hookSocket,
                 sends, sendCount, poll>>

(* newSocket.on('disconnect') / on('connect_error') *)
HookDisconnect ==
  /\ isConnected
  /\ isConnected' = FALSE
  /\ wsOut' = <<>>
  /\ UNCHANGED <<routeVars, messages, input, loading, error, hookSocket,
                 sends, sendCount, poll>>

(* onChange of the input field *)
TypeInput(str) ==
  /\ input # str
  /\ input' = str
  /\ UNCHANGED <<routeVars, hookVars, messages, loading, error, sends,
                 sendCount, poll>>

(* ChatView sendMessage up to its first await (fallback) or to its end     *)
(* (live channel).  No file is selected.                                   *)
Send(k) ==
  /\ k = sendCount + 1
  /\ k \in SendIds
  /\ Trim(input) # ""
  /\ sendCount' = k
  /\ LET withNew == Append(messages, OptimisticMessage(k, input))
     IN  IF isConnected
         THEN /\ wsOut' = HookSendMessage(wsOut, hookSocket, isConnected,
                                          OpenChat, OpenUser, input)
              /\ messages' = MarkSent(withNew, LocalId(k))
              /\ error' = NoError
              /\ loading' = FALSE
              /\ sends' = [sends EXCEPT ![k] =
                             [Idle EXCEPT !.pc = "done",
                                          !.currentInput = input]]
         ELSE /\ messages' = withNew
              /\ loading' = TRUE
              /\ sends' = [sends EXCEPT ![k] =
                             [Idle EXCEPT !.pc = "posting",
                                          !.currentInput = input]]
              /\ UNCHANGED <<wsOut, error>>
  /\ input' = ""
  /\ UNCHANGED <<routeVars, isConnected, hookSocket, poll>>

(* route.ts POST for send k.  The request may fail before the route runs   *)
(* (nothing stored), the route may answer, or its answer may be lost.      *)
RoutePOST(k, stored, ok) ==
  /\ sends[k].pc = "posting"
  /\ ok => stored
  /\ IF stored
     THEN LET n == Len(store) + Cardinality(aiTimers) + 1
              m == RouteMessage(n, OpenChat, sends[k].currentInput, OpenUser)
          IN  /\ store' = Append(store, m)
              /\ aiTimers' = aiTimers \cup
                               {[id |-> n + 1, chatId |-> OpenChat,
                                 content |-> sends[k].currentInput,
                                 for |-> m.id]}
              /\ sends' = [sends EXCEPT ![k].pc = "posted",
                                        ![k].ok = ok,
                                        ![k].envelope = m.id]
     ELSE /\ sends' = [sends EXCEPT ![k].pc = "posted", ![k].ok = FALSE]
          /\ UNCHANGED <<store, aiTimers>>
  /\ UNCHANGED <<replyTo, hookVars, messages, input, loading, error,
                 sendCount, poll>>

(* route.ts POST: the setTimeout callback pushes the agent's reply.        *)
AiTimer ==
  \E tm \in aiTimers :
    /\ store' = Append(store, AiResponse(tm.id, tm.chatId, tm.content))
    /\ aiTimers' = aiTimers \ {tm}
    /\ replyTo' = replyTo \cup {<<RouteId(tm.id), tm.for>>}
    /\ UNCHANGED <<hookVars, messages, input, loading, error, sends,
                   sendCount, poll>>

(* sendMessage resumes with the POST's outcome: on success the entry is    *)
(* marked 'sent' and fetchMessages is awaited; otherwise the catch and     *)
(* finally blocks run.                                                     *)
PostResponse(k) ==
  /\ sends[k].pc = "posted"
  /\ IF sends[k].ok
     THEN /\ messages' = MarkSent(messages, LocalId(k))
          /\ sends' = [sends EXCEPT ![k].pc = "fetching"]
          /\ UNCHANGED <<input, loading, error>>
     ELSE /\ error' = "Failed to send message"
          /\ messages' = RemoveMessage(messages, LocalId(k))
          /\ input' = sends[k].currentInput
          /\ loading' = FALSE
          /\ sends' = [sends EXCEPT ![k].pc = "done"]
  /\ UNCHANGED <<routeVars, hookVars, sendCount, poll>>

(* route.ts GET for the fetchMessages awaited by send k. *)
SendFetchGET(k, ok) ==
  /\ sends[k].pc = "fetching"
  /\ sends' = [sends EXCEPT ![k].pc = "fetched",
                            ![k].ok = ok,
                            ![k].list = IF ok THEN RouteGET(store, OpenChat)
                                              ELSE <<>>]
  /\ UNCHANGED <<routeVars, hookVars, messages, input, loading, error,
                 sendCount, poll>>

(* The awaited fetchMessages completes and sendMessage runs to its end:    *)
(* setError(null) and setLoading(false).                                   *)
SendFetchResponse(k) ==
  /\ sends[k].pc = "fetched"
  /\ messages' = IF sends[k].ok THEN FormatMessages(sends[k].list)
                                ELSE messages
  /\ error' = NoError
  /\ loading' = FALSE
  /\ sends' = [sends EXCEPT ![k].pc = "done"]
  /\ UNCHANGED <<routeVars, hookVars, input, sendCount, poll>>

(* setInterval(() => fetchMessages(), 2000): a baseline fetch is issued.   *)
PollStart ==
  /\ poll.pc = "idle"
  /\ poll' = [NoPoll EXCEPT !.pc = "requested"]
  /\ UNCHANGED <<routeVars, hookVars, messages, input, loading, error,
                 sends, sendCount>>

(* route.ts GET for the baseline fetch. *)
PollGET(ok) ==
  /\ poll.pc = "requested"
  /\ poll' = [pc |-> "responded", ok |-> ok,
              list |-> IF ok THEN RouteGET(store, OpenChat) ELSE <<>>]
  /\ UNCHANGED <<routeVars, hookVars, messages, input, loading, error,
                 sends, sendCount>>

(* fetchMessages resumes with the GET's outcome. *)
PollResponse ==
  /\ poll.pc = "responded"
  /\ IF poll.ok
     THEN /\ messages' = FormatMessages(poll.list)
          /\ error' = NoError
     ELSE /\ error' = "Failed to load messages"
          /\ UNCHANGED messages
  /\ poll' = NoPoll
  /\ UNCHANGED <<routeVars, hookVars, input, loading, sends, sendCount>>

----------------------------------------------------------------------------
(* The Home page (unnamed/part_003) with one selected chat.  Its backend   *)
(* (API_BASE) is outside the repository: it is the environment, which      *)
(* keeps the chat's list, appends to it and answers or fails requests.     *)

VARIABLES
  backend,        \* the backend's list for the selected chat
  pageMessages,   \* Home: messages
  pageInput,      \* Home: input
  pageLoading,    \* Home: loading
  pageError,      \* Home: error
  pageFetch,      \* the fetchMessages call of the chat-selection effect
  pageSends,      \* one entry per sendMessage call and its poll loop
  pageSendCount,  \* number of sendMessage calls that passed the guard
  selectedChatId  \* Home: selectedChatId

pageVars == <<backend, pageMessages, pageInput, pageLoading, pageError,
              pageFetch, pageSends, pageSendCount, selectedChatId>>

MaxPageSends == 1

PageSendIds == 1..MaxPageSends

(* const maxPolls = 15 *)
maxPolls == 15

(* setTimeout(pollForResponse, 2000) and setTimeout(pollForResponse, 1000) *)
FirstPollDelay == 2000

PollDelay == 1000

BackendMessage(n, content, isFromAgent) ==
  [id |-> <<"b", n>>, content |-> content, isFromAgent |-> isFromAgent]

(* The history a chat may have when it is selected. *)
Histories == {<<>>, <<BackendMessage(1, "old", FALSE)>>}

PageInputs == {"hi"}

PageIdle == [pc |-> "idle", currentInput |-> "", closureLength |-> 0,
             ok |-> FALSE, list |-> <<>>, currentMessageCount |-> 0,
             observed |-> 0, pollCount |-> 0, delay |-> 0]

PageInit ==
  /\ backend = <<>>
  /\ pageMessages = <<>>
  /\ pageInput = ""
  /\ pageLoading = FALSE
  /\ pageError = NoError
  /\ pageFetch = [NoPoll EXCEPT !.pc = "unselected"]
  /\ pageSends = [k \in PageSendIds |-> PageIdle]
  /\ pageSendCount = 0
  /\ selectedChatId = NoRoom

(* Mutant of PollsExhausted: one attempt more is allowed.                  *)
PollsExhaustedLate(pollCount) == pollCount > maxPolls

(* if (pollCount >= maxPolls) return; *)
PollsExhausted(pollCount) == pollCount >= maxPolls

(* const currentMessageCount = messages.length + data.messages.length,     *)
(* where messages is the value the handler's render captured.              *)
CurrentMessageCount(closureLength, data) == closureLength + Len(data)

(* onChange of the input field *)
PageType(str) ==
  /\ pageInput # str
  /\ pageInput' = str
  /\ UNCHANGED <<backend, pageMessages, pageLoading, pageError, pageFetch,
                 pageSends, pageSendCount>>
  /\ UNCHANGED selectedChatId

(* selectChat / createNewChat set selectedChatId, and the effect on        *)
(* selectedChatId calls fetchMessages.  The chat has some history.         *)
SelectChat(history) ==
  /\ pageFetch.pc = "unselected"
  /\ selectedChatId' = OpenChat
  /\ backend' = history
  /\ pageFetch' = [NoPoll EXCEPT !.pc = "requested"]
  /\ UNCHANGED <<pageMessages, pageInput, pageLoading, pageError, pageSends,
                 pageSendCount>>

(* The backend answers the GET of the chat-selection fetchMessages.        *)
PageFetchGET(ok) ==
  /\ pageFetch.pc = "requested"
  /\ selectedChatId = OpenChat
  /\ pageFetch' = [pc |-> "responded", ok |-> ok,
                   list |-> IF ok THEN backend ELSE <<>>]
  /\ UNCHANGED <<backend, pageMessages, pageInput, pageLoading, pageError,
                 pageSends, pageSendCount>>
  /\ UNCHANGED selectedChatId

(* fetchMessages resumes with the GET's outcome. *)
PageFetchResponse ==
  /\ pageFetch.pc = "responded"
  /\ IF pageFetch.ok
     THEN pageMessages' = pageFetch.list /\ UNCHANGED pageError
     ELSE pageError' = "Failed to load messages" /\ UNCHANGED pageMessages
  /\ pageFetch' = NoPoll
  /\ UNCHANGED <<backend, pageInput, pageLoading, pageSends, pageSendCount>>
  /\ UNCHANGED selectedChatId

(* Home sendMessage up to its await of the POST. *)
PageSend(k) ==
  /\ k = pageSendCount + 1
  /\ k \in PageSendIds
  /\ Trim(pageInput) # ""
  /\ selectedChatId = OpenChat
  /\ ~pageLoading
  /\ pageSendCount' = k
  /\ pageLoading' = TRUE
  /\ pageInput' = ""
  /\ pageSends' = [pageSends EXCEPT ![k] =
                     [PageIdle EXCEPT !.pc = "posting",
                                      !.currentInput = pageInput,
                                      !.closureLength = Len(pageMessages)]]
  /\ UNCHANGED <<backend, pageMessages, pageError, pageFetch>>
  /\ UNCHANGED selectedChatId

(* The backend handles the POST: it appends the user's message and answers *)
(* with it, or the request fails.                                          *)
BackendPOST(k, ok) ==
  /\ pageSends[k].pc = "posting"
  /\ IF ok
     THEN LET m == BackendMessage(Len(backend) + 1,
                                  pageSends[k].currentInput, FALSE)
          IN  /\ backend' = Append(backend, m)
              /\ pageSends' = [pageSends EXCEPT ![k].pc = "posted",
                                                ![k].ok = TRUE,
                                                ![k].list = <<m>>]
     ELSE /\ pageSends' = [pageSends EXCEPT ![k].pc = "posted",
                                            ![k].ok = FALSE]
          /\ UNCHANGED backend
  /\ UNCHANGED <<pageMessages, pageInput, pageLoading, pageError, pageFetch,
                 pageSendCount>>
  /\ UNCHANGED selectedChatId

(* The backend appends the agent's reply to the last message, if that is a *)
(* user's message.                                                         *)
BackendReply ==
  /\ backend # <<>>
  /\ ~backend[Len(backend)].isFromAgent
  /\ backend[Len(backend)].content # "old"
  /\ backend' = Append(backend,
                       BackendMessage(Len(backend) + 1, "reply", TRUE))
  /\ UNCHANGED <<pageMessages, pageInput, pageLoading, pageError, pageFetch,
                 pageSends, pageSendCount>>
  /\ UNCHANGED selectedChatId

(* sendMessage resumes with the POST's outcome: the returned messages are  *)
(* appended and the first poll is scheduled, or the catch block runs.      *)
PagePostResponse(k) ==
  /\ pageSends[k].pc = "posted"
  /\ IF pageSends[k].ok
     THEN /\ pageMessages' = pageMessages \o pageSends[k].list
          /\ pageError' = NoError
          /\ pageSends' =
               [pageSends EXCEPT
                  ![k].pc = "timer",
                  ![k].delay = FirstPollDelay,
                  ![k].pollCount = 0,
                  ![k].currentMessageCount =
                     CurrentMessageCount(pageSends[k].closureLength,
                                         pageSends[k].list),
                  ![k].observed = Len(pageMessages) + Len(pageSends[k].list),
                  ![k].list = <<>>]
          /\ UNCHANGED pageInput
     ELSE /\ pageError' = "Failed to send message"
          /\ pageInput' = pageSends[k].currentInput
          /\ pageSends' = [pageSends EXCEPT ![k].pc = "failed"]
          /\ UNCHANGED pageMessages
  /\ pageLoading' = FALSE
  /\ UNCHANGED <<backend, pageFetch, pageSendCount>>
  /\ UNCHANGED selectedChatId

(* pollForResponse, called by its timer, up to its await of the GET.       *)
PollForResponse(k) ==
  /\ pageSends[k].pc = "timer"
  /\ IF PollsExhausted(pageSends[k].pollCount)
     THEN pageSends' = [pageSends EXCEPT ![k].pc = "stopped"]
     ELSE pageSends' = [pageSends EXCEPT ![k].pc = "polling",
                                         ![k].pollCount = @ + 1]
  /\ UNCHANGED <<backend, pageMessages, pageInput, pageLoading, pageError,
                 pageFetch, pageSendCount>>
  /\ UNCHANGED selectedChatId

(* The backend answers the GET of a poll, or the request fails.            *)
BackendPollGET(k, ok) ==
  /\ pageSends[k].pc = "polling"
  /\ pageSends' = [pageSends EXCEPT ![k].pc = "answered",
                                    ![k].ok = ok,
                                    ![k].list = IF ok THEN backend ELSE <<>>]
  /\ UNCHANGED <<backend, pageMessages, pageInput, pageLoading, pageError,
                 pageFetch, pageSendCount>>
  /\ UNCHANGED selectedChatId

(* pollForResponse resumes with the GET's outcome: a list longer than      *)
(* currentMessageCount replaces the transcript and ends the loop,          *)
(* anything else re-arms the timer.                                        *)
PollAnswer(k) ==
  /\ pageSends[k].pc = "answered"
  /\ IF pageSends[k].ok
        /\ Len(pageSends[k].list) > pageSends[k].currentMessageCount
     THEN /\ pageMessages' = pageSends[k].list
          /\ pageSends' = [pageSends EXCEPT ![k].pc = "stopped",
                                            ![k].list = <<>>]
     ELSE /\ pageSends' = [pageSends EXCEPT ![k].pc = "timer",
                                            ![k].delay = PollDelay,
                                            ![k].list = <<>>]
          /\ UNCHANGED pageMessages
  /\ UNCHANGED <<backend, pageInput, pageLoading, pageError, pageFetch,
                 pageSendCount>>
  /\ UNCHANGED selectedChatId

(* The other chat of the sidebar and its list. *)
OtherChat == "r2"

OtherHistory == <<BackendMessage(1, "other", FALSE)>>

(* selectChat(chatId) for the other chat, while the open chat's own        *)
(* fetchMessages is not in flight: setSelectedChatId, and the effect on    *)
(* selectedChatId calls fetchMessages for it.  Nothing else is reset, and  *)
(* no timer of sendMessage is cleared.                                     *)
SwitchChat ==
  /\ selectedChatId = OpenChat
  /\ pageFetch.pc = "idle"
  /\ selectedChatId' = OtherChat
  /\ pageFetch' = [NoPoll EXCEPT !.pc = "requested"]
  /\ UNCHANGED <<backend, pageMessages, pageInput, pageLoading, pageError,
                 pageSends, pageSendCount>>

(* The backend answers the GET of fetchMessages for the other chat.        *)
OtherFetchGET(ok) ==
  /\ pageFetch.pc = "requested"
  /\ selectedChatId = OtherChat
  /\ pageFetch' = [pc |-> "responded", ok |-> ok,
                   list |-> IF ok THEN OtherHistory ELSE <<>>]
  /\ UNCHANGED <<backend, pageMessages, pageInput, pageLoading, pageError,
                 pageSends, pageSendCount, selectedChatId>>

----------------------------------------------------------------------------
(* The ChatView's hook on a session of the WebSocket server.  The hook's    *)
(* socket is session HookSock of the server; the packets of wsOut reach    *)
(* the server in the order of their emission, and the server's events      *)
(* reach the hook's handlers through inbox.                                *)

VARIABLES
  wsSeen,         \* number of packets of wsOut the server has handled
  sessions        \* number of sessions the hook's sockets have opened

liveVars == <<wsSeen, sessions>>

HookSock == 1

MaxSessions == 2

LiveInit ==
  /\ wsSeen = 0
  /\ sessions = 0

(* Mutant of OnMessage: the pushed message is appended without the test.   *)
OnMessageAlways(list, newMessage) == Append(list, newMessage)

(* ChatView onMessage: the pushed message is appended as it is, unless an  *)
(* entry has its id.                                                       *)
OnMessage(list, newMessage) ==
  IF \E i \in 1..Len(list) : list[i].id = newMessage.id
  THEN list
  ELSE Append(list, newMessage)

(* status?: 'sending' | 'sent' | 'delivered' | 'read', in that order.      *)
Rank(status) ==
  CASE status = "sending" -> 1
    [] status = "sent" -> 2
    [] status = "delivered" -> 3
    [] status = "read" -> 4

----------------------------------------------------------------------------
(* The typing indicator of ChatView.  Its effect runs after every render   *)
(* (sendTypingIndicator is a new function on each), so every handler that  *)
(* changes state is followed by the effect, and by the effect once more    *)
(* when the effect itself has set isTyping.                                *)

VARIABLES
  isTyping,       \* ChatView: isTyping
  typingTimer     \* typingTimeoutRef.current holds a pending timeout

debounceVars == <<isTyping, typingTimer>>

MaxEmits == 7

KeyInputs == Inputs \cup {"", "hi!"}

(* After mount the effect has run once with an empty input.                *)
DebounceInit ==
  /\ isTyping = FALSE
  /\ typingTimer = TRUE

(* useWebSocket sendTypingIndicator: the packet, if the hook emits one.    *)
HookSendTyping(out, sock, conn, chatId, userId, typing) ==
  IF sock /\ conn /\ chatId # ""
  THEN Append(out, [event |-> IF typing THEN "user-typing"
                                       ELSE "user-stopped-typing",
                    chatId |-> chatId, userId |-> userId])
  ELSE out

(* if (input.trim() && !isTyping) *)
StartsTyping(inp, typing) == Trim(inp) # "" /\ ~typing

(* The number of packets of an event in a list of packets.                 *)
Emitted(out, event) ==
  Cardinality({i \in 1..Len(out) : out[i].event = event})

(* onChange of the input field, the render and the typing effect: the      *)
(* effect emits typing=true if the input is not blank and isTyping is not  *)
(* set, and re-arms the timeout.                                           *)
Keystroke(str) ==
  /\ input # str
  /\ Len(wsOut) < MaxEmits
  /\ input' = str
  /\ wsOut' = IF StartsTyping(str, isTyping)
                THEN HookSendTyping(wsOut, hookSocket, isConnected,
                                    OpenChat, OpenUser, TRUE)
                ELSE wsOut
  /\ isTyping' = (isTyping \/ StartsTyping(str, isTyping))
  /\ typingTimer' = TRUE
  /\ UNCHANGED <<routeVars, isConnected, hookSocket, messages, loading,
                 error, sends, sendCount, poll>>

(* The timeout's callback: setIsTyping(false) and typing=false.  When that *)
(* changes isTyping the component renders and the effect runs again with   *)
(* isTyping false.                                                         *)
TypingTimeout ==
  /\ typingTimer
  /\ Len(wsOut) + 1 < MaxEmits
  /\ LET stopped == HookSendTyping(wsOut, hookSocket, isConnected,
                                   OpenChat, OpenUser, FALSE)
     IN  IF isTyping
         THEN /\ wsOut' = IF StartsTyping(input, FALSE)
                           THEN HookSendTyping(stopped, hookSocket,
                                               isConnected, OpenChat,
                                               OpenUser, TRUE)
                           ELSE stopped
              /\ isTyping' = StartsTyping(input, FALSE)
              /\ typingTimer' = TRUE
         ELSE /\ wsOut' = stopped
              /\ isTyping' = FALSE
              /\ typingTimer' = FALSE
  /\ UNCHANGED <<routeVars, isConnected, hookSocket, messages, input,
                 loading, error, sends, sendCount, poll>>

(* A render for another reason (the poll's setMessages, a hook state):     *)
(* the effect runs and arms the timeout again.                             *)
Rerender ==
  /\ ~typingTimer
  /\ typingTimer' = TRUE
  /\ UNCHANGED <<viewVars, isTyping>>

----------------------------------------------------------------------------
(* The message route called by any client: requests for any chat, with or  *)
(* without the x-user-id header, and the response the route returns.       *)

VARIABLES
  http            \* the last response of the route

httpVars == <<http>>

MaxStore == 3

(* params.chatId, which may be empty. *)
RouteChats == Rooms \cup {""}

(* request.headers.get('x-user-id'): NoUser when the header is missing. *)
RouteUsers == {OpenUser, NoUser}

Response(method, status, chatId, userId, list) ==
  [method |-> method, status |-> status, chatId |-> chatId,
   userId |-> userId, messages |-> list]

HttpInit == http = Response("none", 0, "", NoUser, <<>>)

(* if (!userId) ... if (!chatId) ...: the request is answered with 400.    *)
BadRequest(chatId, userId) == userId = NoUser \/ chatId = ""

(* GET: the chat's messages, or 400. *)
HttpGET(chatId, userId) ==
  /\ http' = IF BadRequest(chatId, userId)
               THEN Response("GET", 400, chatId, userId, <<>>)
               ELSE Response("GET", 200, chatId, userId,
                             RouteGET(store, chatId))
  /\ UNCHANGED <<routeVars, hookVars, messages, input, loading, error,
                 sends, sendCount, poll>>

(* POST: 400, or the new message is pushed, the reply's timer is set and   *)
(* the new message is returned.                                            *)
HttpPOST(chatId, userId, content) ==
  /\ Len(store) + Cardinality(aiTimers) < MaxStore
  /\ IF BadRequest(chatId, userId)
     THEN /\ http' = Response("POST", 400, chatId, userId, <<>>)
          /\ UNCHANGED <<store, aiTimers>>
     ELSE LET n == Len(store) + Cardinality(aiTimers) + 1
              m == RouteMessage(n, chatId, content, userId)
          IN  /\ store' = Append(store, m)
              /\ aiTimers' = aiTimers \cup
                               {[id |-> n + 1, chatId |-> chatId,
                                 content |-> content, for |-> m.id]}
              /\ http' = Response("POST", 200, chatId, userId, <<m>>)
  /\ UNCHANGED <<replyTo, hookVars, messages, input, loading, error, sends,
                 sendCount, poll>>

----------------------------------------------------------------------------
(* Specifications *)

(* The state outside the WebSocket server's registries.                    *)
others == <<orderVars, viewVars, pageVars, liveVars, debounceVars, httpVars>>

clientVars == <<viewVars, pageVars, liveVars, debounceVars, httpVars>>

notView == <<vars, orderVars, pageVars, liveVars, debounceVars, httpVars>>

notPage == <<vars, orderVars, viewVars, liveVars, debounceVars, httpVars>>

allVars == <<vars, orderVars, viewVars, pageVars, liveVars, debounceVars, httpVars>>

(* The server, the clients and the backends after construction.          *)
Init ==
  /\ ServerInit
  /\ inbox = NoEvents
  /\ ViewInit
  /\ PageInit
  /\ LiveInit
  /\ DebounceInit
  /\ HttpInit

Next ==
  \/ \E s \in Sockets, u \in Users \cup {NoUser} :
        Connection(s, u) /\ UNCHANGED others
  \/ \E s \in Sockets, r \in Rooms, u \in Users :
        JoinChat(s, r, u) /\ UNCHANGED others
  \/ \E s \in Sockets, r \in Rooms, u \in Users :
        LeaveChat(s, r, u) /\ UNCHANGED others
  \/ \E s \in Sockets, r \in Rooms, u \in Users, c \in Contents,
        ty \in TypeInputs : SendMessage(s, r, u, c, ty) /\ UNCHANGED others
  \/ \E s \in Sockets : Disconnect(s) /\ UNCHANGED others

Spec == Init /\ [][Next]_allVars

----------------------------------------------------------------------------
(* The event stream of each socket.  socket.io writes the packets of one   *)
(* connection in the order of the emit calls and the connection keeps that *)
(* order; a closed socket's stream is discarded.                           *)

(* Mutant of Deliver: a later packet overtakes the ones already written.   *)
DeliverOvertaking(box, em, live) ==
  [t \in Sockets |-> IF t \in live THEN em[t] \o box[t] ELSE <<>>]

Deliver(box, em, live) ==
  [t \in Sockets |-> IF t \in live THEN box[t] \o em[t] ELSE <<>>]

Delivered ==
  /\ inbox' = Deliver(inbox, emitted', connected')
  /\ UNCHANGED clientVars

(* The requests of clients built on the useWebSocket hook: every request   *)
(* carries the userId the socket was opened with.                          *)
OrderNext ==
  \/ \E s \in Sockets, u \in Users :
        Connection(s, u) /\ Delivered
  \/ \E s \in Sockets, r \in Rooms :
        JoinChat(s, r, handshake[s]) /\ Delivered
  \/ \E s \in Sockets, r \in Rooms :
        LeaveChat(s, r, handshake[s]) /\ Delivered
  \/ \E s \in Sockets, r \in Rooms, c \in Contents :
        SendMessage(s, r, handshake[s], c, NoType) /\ Delivered
  \/ \E s \in Sockets : Disconnect(s) /\ Delivered

SpecOrder == Init /\ [][OrderNext]_allVars

(* The same clients, which may also query a room's members.  MaxInbox      *)
(* bounds the replies held by the sockets together, MaxChanges the joins, *)
(* leaves and disconnects of a run.                                        *)
MaxInbox == 1

Replies(box) ==
  Cardinality({p \in Sockets \X (1..(MaxInbox + MaxClock)) :
                 /\ p[2] <= Len(box[p[1]])
                 /\ box[p[1]][p[2]].kind = "online-users"})

MaxChanges == MaxClock - 1

QueryNext ==
  \/ \E s \in Sockets, u \in Users :
        Connection(s, u) /\ Delivered
  \/ \E s \in Sockets, r \in Rooms :
        now < MaxChanges /\ JoinChat(s, r, handshake[s]) /\ Delivered
  \/ \E s \in Sockets, r \in Rooms :
        now < MaxChanges /\ LeaveChat(s, r, handshake[s]) /\ Delivered
  \/ \E s \in Sockets : now < MaxChanges /\ Disconnect(s) /\ Delivered
  \/ \E s \in Sockets, r \in Rooms :
        Replies(inbox) < MaxInbox /\ GetOnlineUsers(s, r) /\ Delivered

SpecQuery == Init /\ [][QueryNext]_allVars

(* The same clients, which may also send typing indicators.                *)
TypingNext ==
  \/ \E s \in Sockets, u \in Users :
        Connection(s, u) /\ UNCHANGED others
  \/ \E s \in Sockets, r \in Rooms :
        JoinChat(s, r, handshake[s]) /\ UNCHANGED others
  \/ \E s \in Sockets, r \in Rooms :
        LeaveChat(s, r, handshake[s]) /\ UNCHANGED others
  \/ \E s \in Sockets : Disconnect(s) /\ UNCHANGED others
  \/ \E s \in Sockets, r \in Rooms :
        UserTyping(s, r, handshake[s]) /\ UNCHANGED others
  \/ \E s \in Sockets, r \in Rooms :
        UserStoppedTyping(s, r, handshake[s]) /\ UNCHANGED others

SpecTyping == Init /\ [][TypingNext]_allVars

(* One ChatView with its hook, the message route and its timers.           *)
ViewNext ==
  \/ HookEffect /\ UNCHANGED notView
  \/ HookConnect /\ UNCHANGED notView
  \/ HookDisconnect /\ UNCHANGED notView
  \/ \E str \in Inputs : TypeInput(str) /\ UNCHANGED notView
  \/ \E k \in SendIds : Send(k) /\ UNCHANGED notView
  \/ \E k \in SendIds, stored, ok \in BOOLEAN :
        RoutePOST(k, stored, ok) /\ UNCHANGED notView
  \/ AiTimer /\ UNCHANGED notView
  \/ \E k \in SendIds : PostResponse(k) /\ UNCHANGED notView
  \/ \E k \in SendIds, ok \in BOOLEAN :
        SendFetchGET(k, ok) /\ UNCHANGED notView
  \/ \E k \in SendIds : SendFetchResponse(k) /\ UNCHANGED notView
  \/ PollStart /\ UNCHANGED notView
  \/ \E ok \in BOOLEAN : PollGET(ok) /\ UNCHANGED notView
  \/ PollResponse /\ UNCHANGED notView

SpecView == Init /\ [][ViewNext]_allVars

(* sendMessage resumes after each await once its promise has settled, and  *)
(* the request of its own fetchMessages is answered or fails.  Nothing     *)
(* bounds the time the POST may stay unanswered: fetch is called without   *)
(* a timeout or an abort signal.                                           *)
ViewFairness ==
  /\ WF_allVars(\E k \in SendIds : PostResponse(k) /\ UNCHANGED notView)
  /\ WF_allVars(\E k \in SendIds, ok \in BOOLEAN :
                  SendFetchGET(k, ok) /\ UNCHANGED notView)
  /\ WF_allVars(\E k \in SendIds : SendFetchResponse(k) /\ UNCHANGED notView)

SpecViewFair == Init /\ [][ViewNext]_allVars /\ ViewFairness

(* The Home page and its backend.                                          *)
PageNext ==
  \/ \E h \in Histories : SelectChat(h) /\ UNCHANGED notPage
  \/ \E str \in PageInputs : PageType(str) /\ UNCHANGED notPage
  \/ \E ok \in BOOLEAN : PageFetchGET(ok) /\ UNCHANGED notPage
  \/ PageFetchResponse /\ UNCHANGED notPage
  \/ \E k \in PageSendIds : PageSend(k) /\ UNCHANGED notPage
  \/ \E k \in PageSendIds, ok \in BOOLEAN :
        BackendPOST(k, ok) /\ UNCHANGED notPage
  \/ BackendReply /\ UNCHANGED notPage
  \/ \E k \in PageSendIds : PagePostResponse(k) /\ UNCHANGED notPage
  \/ \E k \in PageSendIds : PollForResponse(k) /\ UNCHANGED notPage
  \/ \E k \in PageSendIds, ok \in BOOLEAN :
        BackendPollGET(k, ok) /\ UNCHANGED notPage
  \/ \E k \in PageSendIds : PollAnswer(k) /\ UNCHANGED notPage

SpecPage == Init /\ [][PageNext]_allVars

(* The Home page when the user also selects the other chat.                *)
SwitchNext ==
  \/ PageNext
  \/ SwitchChat /\ UNCHANGED notPage
  \/ \E ok \in BOOLEAN : OtherFetchGET(ok) /\ UNCHANGED notPage

SpecSwitch == Init /\ [][SwitchNext]_allVars

(* The effect of useWebSocket runs (mount, or a dependency changed): its   *)
(* cleanup closes the previous socket, which ends that socket's session.   *)
LiveEffect ==
  /\ HookEffect
  /\ IF HookSock \in connected
     THEN /\ Disconnect(HookSock)
          /\ inbox' = Deliver(inbox, emitted', connected')
     ELSE UNCHANGED <<vars, inbox>>
  /\ wsSeen' = 0
  /\ UNCHANGED <<sessions, pageVars, debounceVars, httpVars>>

(* The socket of the hook connects (first connect or reconnection): the    *)
(* server's connection handler and the hook's connect handler run.         *)
LiveConnect ==
  /\ sessions < MaxSessions
  /\ HookConnect
  /\ Connection(HookSock, OpenUser)
  /\ inbox' = Deliver(inbox, emitted', connected')
  /\ wsSeen' = 0
  /\ sessions' = sessions + 1
  /\ UNCHANGED <<pageVars, debounceVars, httpVars>>

(* The session is lost: both disconnect handlers run.                      *)
LiveDisconnect ==
  /\ HookDisconnect
  /\ Disconnect(HookSock)
  /\ inbox' = Deliver(inbox, emitted', connected')
  /\ wsSeen' = 0
  /\ UNCHANGED <<sessions, pageVars, debounceVars, httpVars>>

(* The server handles the next packet the hook has emitted.                *)
LiveRequest ==
  /\ wsSeen < Len(wsOut)
  /\ LET p == wsOut[wsSeen + 1]
     IN  IF p.event = "join-chat"
         THEN JoinChat(HookSock, p.chatId, p.userId)
         ELSE SendMessage(HookSock, p.chatId, p.userId, p.content, p.type)
  /\ inbox' = Deliver(inbox, emitted', connected')
  /\ wsSeen' = wsSeen + 1
  /\ UNCHANGED <<sessions, viewVars, pageVars, debounceVars, httpVars>>

(* The hook's handler of the next event the server has sent: new-message   *)
(* calls onMessage; the other events do not touch the transcript.          *)
LiveReceive ==
  /\ inbox[HookSock] # <<>>
  /\ LET ev == Head(inbox[HookSock])
     IN  messages' = IF ev.kind = "new-message"
                       THEN OnMessage(messages, ev.payload)
                       ELSE messages
  /\ inbox' = [inbox EXCEPT ![HookSock] = Tail(@)]
  /\ UNCHANGED <<vars, routeVars, hookVars, input, loading, error, sends,
                 sendCount, poll, pageVars, liveVars, debounceVars, httpVars>>

(* One ChatView on a session of the server, and the other users' clients.  *)
LiveNext ==
  \/ LiveEffect
  \/ LiveConnect
  \/ LiveDisconnect
  \/ LiveRequest
  \/ LiveReceive
  \/ \E str \in Inputs : TypeInput(str) /\ UNCHANGED notView
  \/ \E k \in SendIds : isConnected /\ Send(k) /\ UNCHANGED notView
  \/ \E s \in Sockets \ {HookSock}, u \in Users \ {OpenUser} :
        Connection(s, u) /\ Delivered
  \/ \E s \in Sockets \ {HookSock} :
        JoinChat(s, OpenChat, handshake[s]) /\ Delivered
  \/ \E s \in Sockets \ {HookSock}, c \in Contents :
        SendMessage(s, OpenChat, handshake[s], c, NoType) /\ Delivered

SpecLive == Init /\ [][LiveNext]_allVars

(* The session of another user's client. *)
PeerSock == 2

PeerUser == UserId(2)

(* The transport delivers the next event to the hook once more: the        *)
(* handler runs and the event stays to be delivered again.                 *)
Redeliver ==
  /\ inbox[HookSock] # <<>>
  /\ Head(inbox[HookSock]).kind = "new-message"
  /\ messages' = OnMessage(messages, Head(inbox[HookSock]).payload)
  /\ UNCHANGED <<vars, inbox, routeVars, hookVars, input, loading, error,
                 sends, sendCount, poll, pageVars, liveVars, debounceVars,
                 httpVars>>

(* One ChatView with both channels: its hook on a session of the server,   *)
(* the fallback route, the baseline poll and another user's client.  The   *)
(* entries of the transcript come from the optimistic append, from the     *)
(* pushes and from the lists of the route; the GETs are answered and the   *)
(* agent's reply falls outside the window.                                 *)
TranscriptNext ==
  \/ ~hookSocket /\ LiveEffect
  \/ LiveConnect
  \/ LiveRequest
  \/ LiveReceive
  \/ Redeliver
  \/ TypeInput("hi") /\ UNCHANGED notView
  \/ \E k \in SendIds : Send(k) /\ UNCHANGED notView
  \/ \E k \in SendIds, stored, ok \in BOOLEAN :
        RoutePOST(k, stored, ok) /\ UNCHANGED notView
  \/ \E k \in SendIds : PostResponse(k) /\ UNCHANGED notView
  \/ \E k \in SendIds : SendFetchGET(k, TRUE) /\ UNCHANGED notView
  \/ \E k \in SendIds : SendFetchResponse(k) /\ UNCHANGED notView
  \/ PollStart /\ UNCHANGED notView
  \/ PollGET(TRUE) /\ UNCHANGED notView
  \/ PollResponse /\ UNCHANGED notView
  \/ Connection(PeerSock, PeerUser) /\ Delivered
  \/ JoinChat(PeerSock, OpenChat, handshake[PeerSock]) /\ Delivered
  \/ SendMessage(PeerSock, OpenChat, handshake[PeerSock], "hi", NoType)
        /\ Delivered

SpecTranscript == Init /\ [][TranscriptNext]_allVars

(* onChange of the input field of a mounted ChatView: setInput, the render *)
(* and the effects of that render.  The callbacks ChatView passes to       *)
(* useWebSocket are new functions on every render, so the hook's effect    *)
(* runs again: its cleanup closes the socket and a new socket is created.  *)
RenderedKeystroke(str) ==
  /\ hookSocket
  /\ input # str
  /\ input' = str
  /\ hookSocket' = TRUE
  /\ isConnected' = FALSE
  /\ wsOut' = <<>>
  /\ IF HookSock \in connected
     THEN /\ Disconnect(HookSock)
          /\ inbox' = Deliver(inbox, emitted', connected')
     ELSE UNCHANGED <<vars, inbox>>
  /\ wsSeen' = 0
  /\ UNCHANGED <<routeVars, messages, loading, error, sends, sendCount,
                 poll, sessions, pageVars, debounceVars, httpVars>>

(* One mounted ChatView whose transport stays available, and the other     *)
(* users' clients.                                                         *)
RenderNext ==
  \/ ~hookSocket /\ LiveEffect
  \/ LiveConnect
  \/ LiveRequest
  \/ \E str \in Inputs : RenderedKeystroke(str)
  \/ \E s \in Sockets \ {HookSock}, u \in Users \ {OpenUser} :
        Connection(s, u) /\ Delivered
  \/ \E s \in Sockets \ {HookSock} :
        JoinChat(s, OpenChat, handshake[s]) /\ Delivered

SpecRender == Init /\ [][RenderNext]_allVars

(* One ChatView, its hook and its typing indicator.                        *)
DebounceNext ==
  \/ HookEffect /\ UNCHANGED notView
  \/ HookConnect /\ UNCHANGED notView
  \/ HookDisconnect /\ UNCHANGED notView
  \/ \E str \in KeyInputs :
        Keystroke(str) /\ UNCHANGED <<vars, orderVars, pageVars, liveVars, httpVars>>
  \/ TypingTimeout /\ UNCHANGED <<vars, orderVars, pageVars, liveVars, httpVars>>
  \/ Rerender /\ UNCHANGED <<vars, orderVars, pageVars, liveVars, httpVars>>

SpecDebounce == Init /\ [][DebounceNext]_allVars

(* The message route and its timers under the requests of any client.      *)
RouteNext ==
  \/ \E r \in RouteChats, u \in RouteUsers :
        HttpGET(r, u)
          /\ UNCHANGED <<vars, orderVars, pageVars, liveVars, debounceVars>>
  \/ \E r \in RouteChats, u \in RouteUsers, c \in Contents :
        HttpPOST(r, u, c)
          /\ UNCHANGED <<vars, orderVars, pageVars, liveVars, debounceVars>>
  \/ AiTimer /\ UNCHANGED notView

SpecRoute == Init /\ [][RouteNext]_allVars

----------------------------------------------------------------------------
(* Sanity *)

TypeOK ==
  /\ connected \subseteq Sockets
  /\ DOMAIN activeConnections \subseteq connected
  /\ DOMAIN chatRooms \subseteq Rooms
  /\ \A r \in DOMAIN chatRooms : chatRooms[r] \subseteq Users
  /\ \A s \in Sockets : socketRooms[s] \subseteq Rooms
  /\ \A s \in Sockets : Cardinality(socketRooms[s]) <= 1
  /\ now \in 0..MaxClock

----------------------------------------------------------------------------
(* Properties of the room-membership tracker and the fanout *)

(* The number of events of the given kind about userId in a socket's       *)
(* deliveries.                                                             *)
CountOf(seq, kind, userId) ==
  Cardinality({i \in 1..Len(seq) :
                 seq[i].kind = kind /\ seq[i].payload.userId = userId})

(* The tracker's member set of a room; empty when the room has no entry.   *)
MembersOf(cr, chatId) == IF chatId \in DOMAIN cr THEN cr[chatId] ELSE {}

(* C1: while one session is the only live session of its user and every    *)
(* join-chat and leave-chat so far carried the sender's own userId, that   *)
(* user is in at most one room's member set.                               *)
SingleRoomPerSession ==
  \A s \in connected :
    ( /\ handshake[s] # NoUser
      /\ ~spoofed
      /\ \A t \in connected \ {s} : handshake[t] # handshake[s] )
    => Cardinality({r \in DOMAIN chatRooms : handshake[s] \in chatRooms[r]})
         <= 1

(* C2: when a session registered as user U disconnects, every room whose   *)
(* member set had U either no longer has U (other members remain) or has   *)
(* no entry at all (U was its last member), and afterwards no member set   *)
(* contains U.                                                             *)
DisconnectRemovesMembership ==
  [][ ( /\ lastOp'.kind = "disconnect"
        /\ lastOp'.socket \in DOMAIN activeConnections )
      => LET U == activeConnections[lastOp'.socket]
         IN  /\ \A r \in DOMAIN chatRooms :
                  U \in chatRooms[r] =>
                    IF chatRooms[r] = {U}
                      THEN r \notin DOMAIN chatRooms'
                      ELSE /\ r \in DOMAIN chatRooms'
                           /\ chatRooms'[r] = chatRooms[r] \ {U}
             /\ \A r \in DOMAIN chatRooms' : U \notin chatRooms'[r]
             /\ lastOp'.socket \notin DOMAIN activeConnections'
    ]_vars

(* C2 witness: a registered session has disconnected while another session *)
(* stayed subscribed to a room it was a member of, and that room's entry   *)
(* survives without the user.                                              *)
DisconnectedFromSharedRoom ==
  /\ lastOp.kind = "disconnect"
  /\ lastOp.userId # NoUser
  /\ \E t \in connected :
       /\ emitted[t] # <<>>
       /\ \A r \in socketRooms[t] :
            /\ r \in DOMAIN chatRooms
            /\ lastOp.userId \notin chatRooms[r]

(* C3: a send-message for room R delivers exactly one new-message event,   *)
(* carrying the submitted message, to every session subscribed to R and    *)
(* nothing to any other session.                                           *)
SendMessageFanout ==
  lastOp.kind = "send-message" =>
    \A t \in Sockets :
      IF lastOp.chatId \in socketRooms[t]
        THEN /\ Len(emitted[t]) = 1
             /\ emitted[t][1].kind = "new-message"
             /\ emitted[t][1].payload.chatId = lastOp.chatId
             /\ emitted[t][1].payload.userId = lastOp.userId
        ELSE emitted[t] = <<>>

(* C3 witness: a message was sent to a room with a subscriber while        *)
(* another live session was subscribed to a different room.                *)
SentWithMemberAndOutsider ==
  /\ lastOp.kind = "send-message"
  /\ \E t \in connected : lastOp.chatId \in socketRooms[t]
  /\ \E t \in connected :
       /\ socketRooms[t] # {}
       /\ lastOp.chatId \notin socketRooms[t]

(* C4: when a session that is subscribed to room R1 as user U joins        *)
(* another room R2, then afterwards R1's member set has no U and R2's has, *)
(* every other session of R1 got exactly one user-left for U and every     *)
(* other session of R2 exactly one user-joined for U.                      *)
SwitchRoomMovesMembership ==
  [][ ( /\ lastOp'.kind = "join-chat"
        /\ ~spoofed'
        /\ socketRooms[lastOp'.socket] \ {lastOp'.chatId} # {} )
      => LET s == lastOp'.socket
             U == lastOp'.userId
             R2 == lastOp'.chatId
         IN  \A R1 \in socketRooms[s] \ {R2} :
               /\ U \notin MembersOf(chatRooms', R1)
               /\ U \in MembersOf(chatRooms', R2)
               /\ \A t \in Sockets \ {s} :
                    /\ R1 \in socketRooms[t]
                         => CountOf(emitted'[t], "user-left", U) = 1
                    /\ R2 \in socketRooms'[t]
                         => CountOf(emitted'[t], "user-joined", U) = 1
    ]_vars

(* C5: a leave-chat with the sender's own userId that names a room with no *)
(* entry, or whose member set does not contain the user (as after a first  *)
(* leave-chat), changes no member set and delivers no event.               *)
LeaveIsIdempotent ==
  [][ ( /\ lastOp'.kind = "leave-chat"
        /\ ~spoofed'
        /\ lastOp'.userId \notin MembersOf(chatRooms, lastOp'.chatId) )
      => /\ chatRooms' = chatRooms
         /\ \A t \in Sockets : emitted'[t] = <<>>
    ]_vars

(* C6: a disconnect of a session registered as user U delivers exactly one *)
(* user-left event for U to every remaining session subscribed to a room   *)
(* whose member set had U, and nothing to anyone else; a disconnect of a   *)
(* session whose user is in no member set, or that has no user, delivers   *)
(* nothing.                                                                *)
DisconnectAnnouncesLeft ==
  [][ lastOp'.kind = "disconnect"
      => LET s == lastOp'.socket
             U == IF s \in DOMAIN activeConnections THEN activeConnections[s]
                                                    ELSE NoUser
             had == {r \in DOMAIN chatRooms : U \in chatRooms[r]}
         IN  \A t \in Sockets :
               IF t # s /\ socketRooms[t] \cap had # {}
                 THEN /\ Len(emitted'[t]) = 1
                      /\ emitted'[t][1].kind = "user-left"
                      /\ emitted'[t][1].payload.userId = U
                 ELSE emitted'[t] = <<>>
    ]_vars

(* C6 witness: a disconnect has delivered a user-left event to a session   *)
(* that remains subscribed to a room.                                      *)
DisconnectAnnounced ==
  /\ lastOp.kind = "disconnect"
  /\ \E t \in connected :
       /\ socketRooms[t] # {}
       /\ Len(emitted[t]) = 1
       /\ emitted[t][1].kind = "user-left"
       /\ emitted[t][1].payload.userId = lastOp.userId

(* C7: every send-message a session submits under its own userId hands     *)
(* that session an envelope with an identifier, a timestamp and status     *)
(* 'sent'.                                                                 *)
SubmitReturnsSentEnvelope ==
  ( /\ lastOp.kind = "send-message"
    /\ lastOp.userId = handshake[lastOp.socket] ) =>
    \E i \in 1..Len(emitted[lastOp.socket]) :
      LET ev == emitted[lastOp.socket][i]
      IN  /\ ev.kind = "new-message"
          /\ "id" \in DOMAIN ev.payload
          /\ "timestamp" \in DOMAIN ev.payload
          /\ "status" \in DOMAIN ev.payload
          /\ ev.payload.status = "sent"

(* C8: a join-chat for room R delivers exactly one user-joined event for   *)
(* the joining user to every other session subscribed to R and none to the *)
(* joining session.                                                        *)
JoinNotifiesOthers ==
  lastOp.kind = "join-chat" =>
    /\ \A t \in Sockets \ {lastOp.socket} :
         lastOp.chatId \in socketRooms[t] =>
           /\ CountOf(emitted[t], "user-joined", lastOp.userId) = 1
           /\ Len(emitted[t]) = 1
    /\ \A i \in 1..Len(emitted[lastOp.socket]) :
         emitted[lastOp.socket][i].kind # "user-joined"

(* C8 witness: a session has joined a room another session is subscribed   *)
(* to.                                                                     *)
JoinedOccupiedRoom ==
  /\ lastOp.kind = "join-chat"
  /\ lastOp.chatId \in socketRooms[lastOp.socket]
  /\ \E t \in connected \ {lastOp.socket} : lastOp.chatId \in socketRooms[t]

(* C9: a join-chat with the sender's own userId for a room the session is  *)
(* already subscribed to, and whose member set already has the user,       *)
(* leaves that member set unchanged and delivers no user-joined event.     *)
RejoinIsSilent ==
  [][ ( /\ lastOp'.kind = "join-chat"
        /\ ~spoofed'
        /\ lastOp'.chatId \in socketRooms[lastOp'.socket]
        /\ lastOp'.userId \in MembersOf(chatRooms, lastOp'.chatId) )
      => /\ MembersOf(chatRooms', lastOp'.chatId)
              = MembersOf(chatRooms, lastOp'.chatId)
         /\ \A t \in Sockets :
              \A i \in 1..Len(emitted'[t]) :
                emitted'[t][i].kind # "user-joined"
    ]_vars

(* C10: a session that connected without a userId is admitted, and a       *)
(* join-chat from it neither subscribes it to a room nor changes any       *)
(* member set.                                                             *)
UnidentifiedCannotJoin ==
  [][ /\ ( lastOp'.kind = "connection" /\ lastOp'.userId = NoUser )
         => lastOp'.socket \in connected'
      /\ ( /\ lastOp'.kind = "join-chat"
           /\ handshake[lastOp'.socket] = NoUser )
         => /\ socketRooms'[lastOp'.socket] = {}
            /\ chatRooms' = chatRooms
    ]_vars

----------------------------------------------------------------------------
(* Properties of submitted content, event order and presence payloads *)

(* C11: no new-message event carries a message with empty content and no   *)
(* file (type 'text'): an empty submit is rejected, not broadcast.         *)
EmptySubmitRejected ==
  \A t \in Sockets :
    \A i \in 1..Len(emitted[t]) :
      emitted[t][i].kind = "new-message" =>
        ~( /\ emitted[t][i].payload.content = ""
           /\ emitted[t][i].payload.type = "text" )

(* C12: in every socket's event stream the events appear in the order the  *)
(* server processed the requests that produced them (the handlers stamp    *)
(* their events with the time they ran), and new-message events appear in  *)
(* the order of their submits.                                             *)
EventsInRequestOrder ==
  \A t \in Sockets :
    \A i, j \in 1..Len(inbox[t]) :
      i < j => inbox[t][i].payload.timestamp <= inbox[t][j].payload.timestamp

(* C12 witness: a session that stayed in a room has received the           *)
(* user-joined of a later joiner and then a new-message.                   *)
PresenceThenMessage ==
  \E t \in connected :
    /\ Len(inbox[t]) >= 2
    /\ socketRooms[t] # {}
    /\ inbox[t][1].kind = "user-joined"
    /\ inbox[t][2].kind = "new-message"

(* C15: every user-joined and every user-left event carries the acting     *)
(* userId, a display label and a timestamp.                                *)
PresenceEventsCarryLabel ==
  \A t \in Sockets :
    \A i \in 1..Len(emitted[t]) :
      emitted[t][i].kind \in {"user-joined", "user-left"} =>
        /\ {"userId", "userName", "timestamp"}
             \subseteq DOMAIN emitted[t][i].payload
        /\ emitted[t][i].payload.userName
             = <<"User ">> \o SubSeq(emitted[t][i].payload.userId, 1, 8)

----------------------------------------------------------------------------
(* Properties of the member query and of typing notifications *)

(* The userIds listed in a sequence. *)
Range(seq) == {seq[i] : i \in 1..Len(seq)}

(* C13: a get-online-users request for room R changes no registry (it      *)
(* creates no room entry) and sends the requester exactly one online-users *)
(* reply with R's id, the list of R's current member userIds without       *)
(* repetition and a count equal to the length of the list (empty list and  *)
(* count 0 for a room with no entry); no later step alters a reply a       *)
(* connected socket has received.                                          *)
OnlineUsersSnapshot ==
  [][ /\ lastOp'.kind = "get-online-users" =>
           /\ chatRooms' = chatRooms
           /\ activeConnections' = activeConnections
           /\ \A t \in Sockets \ {lastOp'.socket} : emitted'[t] = <<>>
           /\ Len(emitted'[lastOp'.socket]) = 1
           /\ LET reply == emitted'[lastOp'.socket][1]
                  members == IF lastOp'.chatId \in DOMAIN chatRooms
                             THEN chatRooms[lastOp'.chatId] ELSE {}
              IN  /\ reply.kind = "online-users"
                  /\ reply.payload.chatId = lastOp'.chatId
                  /\ Range(reply.payload.users) = members
                  /\ Len(reply.payload.users) = Cardinality(members)
                  /\ reply.payload.count = Len(reply.payload.users)
      /\ \A t \in connected \cap connected' :
           \A i \in 1..Len(inbox[t]) :
             inbox[t][i].kind = "online-users" =>
               /\ i <= Len(inbox'[t])
               /\ inbox'[t][i] = inbox[t][i]
    ]_<<vars, orderVars>>

(* C13 witness: a connected socket holds a reply that lists the one member *)
(* of a room which has since lost its entry.                               *)
StaleReplyHeld ==
  \E t \in connected :
    \E i \in 1..Len(inbox[t]) :
      /\ inbox[t][i].kind = "online-users"
      /\ inbox[t][i].payload.count = 1
      /\ Len(inbox[t][i].payload.users) = 1
      /\ inbox[t][i].payload.chatId \notin DOMAIN chatRooms

(* C14: after a user-typing (user-stopped-typing) request for room R every *)
(* other socket subscribed to R has been sent exactly one typing event,    *)
(* with isTyping true (false) and the acting userId, and the requesting    *)
(* socket and the sockets outside R have been sent nothing.                *)
TypingReachesOthersOnce ==
  lastOp.kind \in {"user-typing", "user-stopped-typing"} =>
    \A t \in Sockets :
      IF t # lastOp.socket /\ lastOp.chatId \in socketRooms[t]
      THEN /\ Len(emitted[t]) = 1
           /\ emitted[t][1].kind = lastOp.kind
           /\ emitted[t][1].payload.userId = lastOp.userId
           /\ emitted[t][1].payload.isTyping = (lastOp.kind = "user-typing")
      ELSE emitted[t] = <<>>

(* C14 witness: a stopped-typing request was made in a room the requester  *)
(* shares with another session, which got the event.                       *)
StoppedTypingInSharedRoom ==
  /\ lastOp.kind = "user-stopped-typing"
  /\ lastOp.chatId \in socketRooms[lastOp.socket]
  /\ \E t \in Sockets \ {lastOp.socket} :
       /\ lastOp.chatId \in socketRooms[t]
       /\ Len(emitted[t]) = 1
       /\ emitted[t][1].payload.isTyping = FALSE

----------------------------------------------------------------------------
(* Properties of the client's Send *)

(* C16: a Send with non-empty content appends exactly one entry, with a    *)
(* new local identifier and the input's content, to the transcript.  With  *)
(* the live channel established the entry is 'sent' when the handler       *)
(* returns, exactly one send-message packet has been emitted and the send  *)
(* is over without any fallback request; otherwise the entry is 'sending', *)
(* nothing is emitted and the fallback request is issued.                  *)
LiveSendEmitsOnce ==
  [][ \A k \in SendIds :
        (sends[k].pc = "idle" /\ sends'[k].pc # "idle") =>
          /\ Trim(input) # ""
          /\ Len(messages') = Len(messages) + 1
          /\ SubSeq(messages', 1, Len(messages)) = messages
          /\ \A i \in 1..Len(messages) :
               messages[i].id # messages'[Len(messages')].id
          /\ \A i \in 1..Len(store) :
               store[i].id # messages'[Len(messages')].id
          /\ messages'[Len(messages')].content = input
          /\ IF isConnected
             THEN /\ messages'[Len(messages')].status = "sent"
                  /\ Len(wsOut') = Len(wsOut) + 1
                  /\ SubSeq(wsOut', 1, Len(wsOut)) = wsOut
                  /\ wsOut'[Len(wsOut')].event = "send-message"
                  /\ wsOut'[Len(wsOut')].content = input
                  /\ wsOut'[Len(wsOut')].chatId = OpenChat
                  /\ sends'[k].pc = "done"
                  /\ ~loading'
             ELSE /\ messages'[Len(messages')].status = "sending"
                  /\ wsOut' = wsOut
                  /\ sends'[k].pc = "posting"
    ]_viewVars

(* C16 witness: a send made over the live channel is over, its entry is    *)
(* 'sent', its packet is on the wire and the route has stored nothing.     *)
LiveSendDone ==
  \E k \in SendIds :
    /\ sends[k].pc = "done"
    /\ isConnected
    /\ store = <<>>
    /\ \E i \in 1..Len(wsOut) : wsOut[i].event = "send-message"
    /\ \E j \in 1..Len(messages) :
         messages[j].id = LocalId(k) /\ messages[j].status = "sent"

(* C17: when the fallback POST of a send fails, then as the send completes *)
(* its optimistic entry is not in the transcript, the input holds the      *)
(* content that was submitted, the error notice is 'Failed to send         *)
(* message' and the loading flag is cleared.                               *)
FailedFallbackRollsBack ==
  [][ \A k \in SendIds :
        (sends[k].pc = "posted" /\ ~sends[k].ok /\ sends'[k].pc = "done") =>
          /\ \A i \in 1..Len(messages') : messages'[i].id # LocalId(k)
          /\ \A i \in 1..Len(messages) :
               messages[i].id # LocalId(k) =>
                 \E j \in 1..Len(messages') : messages'[j] = messages[i]
          /\ input' = sends[k].currentInput
          /\ Trim(input') # ""
          /\ error' = "Failed to send message"
          /\ ~loading'
    ]_viewVars

(* C17 witness: a fallback send has failed and was rolled back while the   *)
(* user had already typed something else.                                  *)
RolledBack ==
  \E k \in SendIds :
    /\ sends[k].pc = "done"
    /\ ~sends[k].ok
    /\ sends[k].envelope = NoId
    /\ error = "Failed to send message"
    /\ input = sends[k].currentInput
    /\ ~loading
    /\ \A i \in 1..Len(messages) : messages[i].id # LocalId(k)

(* A fetch response is applied in this step; its list. *)
FetchApplied ==
  \/ poll.pc = "responded" /\ poll.ok /\ poll'.pc = "idle"
  \/ \E k \in SendIds :
       sends[k].pc = "fetched" /\ sends[k].ok /\ sends'[k].pc = "done"

FetchedList ==
  IF poll.pc = "responded" /\ poll'.pc = "idle"
  THEN poll.list
  ELSE LET k == CHOOSE k \in SendIds :
                  sends[k].pc = "fetched" /\ sends'[k].pc = "done"
       IN  sends[k].list

(* After a fetch whose list has the reply m2 to the envelope m1 of a       *)
(* successful fallback send, the transcript holds the fetched list entry   *)
(* by entry, with m1 before m2.                                            *)
FetchShowsReply ==
  FetchApplied =>
    \A k \in SendIds : \A j \in 1..Len(FetchedList) :
      ( /\ sends[k].ok
        /\ sends[k].pc \in {"fetching", "fetched", "done"}
        /\ <<FetchedList[j].id, sends[k].envelope>> \in replyTo ) =>
          /\ Len(messages') = Len(FetchedList)
          /\ \A i \in 1..Len(FetchedList) :
               \A f \in DOMAIN FetchedList[i] :
                 messages'[i][f] = FetchedList[i][f]
          /\ \E i \in 1..(j - 1) : messages'[i].id = sends[k].envelope

(* C18 as stated: when the client learns that its fallback POST succeeded, *)
(* the transcript shows the message in 'sent' state at once; and a fetch   *)
(* with the reply shows both.                                              *)
SentShownRightAway ==
  [][ /\ \A k \in SendIds :
           (sends[k].pc = "posted" /\ sends[k].ok
              /\ sends'[k].pc = "fetching") =>
             \E i \in 1..Len(messages') :
               /\ messages'[i].id \in {LocalId(k), sends[k].envelope}
               /\ messages'[i].status = "sent"
      /\ FetchShowsReply
    ]_viewVars

(* C18 amended: when the client learns that its fallback POST succeeded    *)
(* and the transcript still has the optimistic entry, or already has the   *)
(* envelope from a fetch, the transcript shows the message in 'sent' state *)
(* at once, and the step changes nothing else in the transcript; and a     *)
(* fetch with the reply shows both.                                        *)
SentShownUnlessReplaced ==
  [][ /\ \A k \in SendIds :
           (sends[k].pc = "posted" /\ sends[k].ok
              /\ sends'[k].pc = "fetching") =>
             /\ Len(messages') = Len(messages)
             /\ \A i \in 1..Len(messages) :
                  /\ messages'[i].id = messages[i].id
                  /\ messages[i].id \in {LocalId(k), sends[k].envelope}
                       => messages'[i].status = "sent"
                  /\ messages[i].id # LocalId(k)
                       => messages'[i] = messages[i]
      /\ FetchShowsReply
    ]_viewVars

(* C18 witness: the transcript shows the envelope of a successful fallback *)
(* send in 'sent' state, followed by the agent's reply to it.              *)
ReplyShownAfterSent ==
  \E k \in SendIds :
    /\ sends[k].ok
    /\ sends[k].pc = "done"
    /\ \E i, j \in 1..Len(messages) :
         /\ i < j
         /\ messages[i].id = sends[k].envelope
         /\ messages[i].status = "sent"
         /\ <<messages[j].id, sends[k].envelope>> \in replyTo

----------------------------------------------------------------------------
(* Properties of the Home page's reconciliation polling *)

(* A step of the poll loop of send k. *)
PollStep(k) ==
  /\ pageSends[k].pc \in {"timer", "polling", "answered"}
  /\ pageSends'[k] # pageSends[k]

(* C19: the poll loop of a send issues at most maxPolls = 15 fetches; each *)
(* fetch after the first is issued by a timer of 1000 ms set when the      *)
(* previous one was answered; when 15 fetches have been answered without   *)
(* the list growing the loop stops and stays stopped; and no step of the   *)
(* loop touches the error notice.                                          *)
PollingIsBounded ==
  [][ \A k \in PageSendIds :
        /\ pageSends'[k].pollCount <= 15
        /\ PollStep(k) => pageError' = pageError
        /\ (pageSends[k].pc = "timer" /\ pageSends'[k].pc = "polling") =>
             /\ pageSends[k].pollCount < 15
             /\ pageSends'[k].pollCount = pageSends[k].pollCount + 1
             /\ pageSends[k].delay
                  = (IF pageSends[k].pollCount = 0 THEN 2000 ELSE 1000)
        /\ (PollStep(k) /\ pageSends[k].pc = "timer"
              /\ pageSends[k].pollCount = 15) =>
             pageSends'[k].pc = "stopped"
        /\ pageSends[k].pc = "stopped" => pageSends'[k] = pageSends[k]
    ]_allVars

(* C19 witness: a loop stopped after 15 fetches that never showed growth,  *)
(* with no error set.                                                      *)
PollingGaveUp ==
  \E k \in PageSendIds :
    /\ pageSends[k].pc = "stopped"
    /\ pageSends[k].pollCount = 15
    /\ Len(backend) <= pageSends[k].currentMessageCount
    /\ pageError = NoError

(* C20: when a poll is answered, a list longer than the transcript was     *)
(* right after the send replaces the transcript and ends the loop; any     *)
(* other answer leaves the transcript as it is and the loop goes on.       *)
PollReplacesOnGrowth ==
  [][ \A k \in PageSendIds :
        (pageSends[k].pc = "answered" /\ pageSends'[k].pc # "answered") =>
          IF pageSends[k].ok /\ Len(pageSends[k].list) > pageSends[k].observed
          THEN /\ pageMessages' = pageSends[k].list
               /\ pageSends'[k].pc = "stopped"
          ELSE /\ pageMessages' = pageMessages
               /\ pageSends'[k].pc = "timer"
    ]_allVars

----------------------------------------------------------------------------
(* Properties of the baseline polling and of the message route *)

(* C21: every successful fetch, the baseline poll's or the one awaited by  *)
(* a send, replaces the whole transcript with the fetched list, so after   *)
(* it no entry is local-only or in 'sending'; a failed fetch leaves the    *)
(* transcript as it is.                                                    *)
PollReplacesTranscript ==
  [][ /\ FetchApplied =>
           /\ Len(messages') = Len(FetchedList)
           /\ \A i \in 1..Len(FetchedList) :
                \A f \in DOMAIN FetchedList[i] :
                  messages'[i][f] = FetchedList[i][f]
           /\ \A i \in 1..Len(messages') :
                /\ messages'[i].status # "sending"
                /\ \A k \in SendIds : messages'[i].id # LocalId(k)
      /\ (poll.pc = "responded" /\ ~poll.ok /\ poll'.pc = "idle") =>
           messages' = messages
    ]_allVars

(* C21 witness: a fallback send is still waiting for its POST and its      *)
(* optimistic entry is no longer in the transcript.                        *)
OptimisticEntryDropped ==
  \E k \in SendIds :
    /\ sends[k].pc \in {"posting", "posted"}
    /\ loading
    /\ \A i \in 1..Len(messages) : messages[i].id # LocalId(k)

(* C28: a fallback POST that the route accepts appends exactly the new     *)
(* user envelope to the list and answers with that envelope, and nothing   *)
(* else; later the list grows only by agent replies, each one appended     *)
(* after the user message it answers, in the same chat, at most one per    *)
(* accepted POST; neither step touches the transcript, where an agent      *)
(* reply appears only when a fetch is applied.                             *)
PostStoresOneEnvelope ==
  [][ /\ \A k \in SendIds :
           (sends[k].pc = "posting" /\ sends'[k].pc = "posted") =>
             /\ messages' = messages
             /\ \/ /\ store' = store
                   /\ aiTimers' = aiTimers
                   /\ ~sends'[k].ok
                \/ /\ Len(store') = Len(store) + 1
                   /\ SubSeq(store', 1, Len(store)) = store
                   /\ ~store'[Len(store')].isFromAgent
                   /\ store'[Len(store')].content = sends[k].currentInput
                   /\ store'[Len(store')].chatId = OpenChat
                   /\ store'[Len(store')].status = "sent"
                   /\ \A i \in 1..Len(store) :
                        store[i].id # store'[Len(store')].id
                   /\ sends'[k].envelope = store'[Len(store')].id
                   /\ Cardinality(aiTimers') = Cardinality(aiTimers) + 1
      /\ (store' # store /\ sends' = sends) =>
           /\ messages' = messages
           /\ Len(store') = Len(store) + 1
           /\ SubSeq(store', 1, Len(store)) = store
           /\ store'[Len(store')].isFromAgent
           /\ Cardinality(aiTimers') = Cardinality(aiTimers) - 1
           /\ \E i \in 1..Len(store) :
                /\ <<store'[Len(store')].id, store[i].id>> \in replyTo'
                /\ ~store[i].isFromAgent
                /\ store[i].chatId = store'[Len(store')].chatId
      /\ \A i \in 1..Len(store') :
           Cardinality({p \in replyTo' : p[2] = store'[i].id}) <= 1
      /\ (\E i \in 1..Len(messages') :
            /\ messages'[i].isFromAgent
            /\ \A j \in 1..Len(messages) : messages[j] # messages'[i])
           => FetchApplied
    ]_allVars

(* C28 witness: the route holds a user envelope followed by the agent's    *)
(* reply to it, no reply is pending and the transcript shows no reply yet. *)
ReplyStoredNotYetShown ==
  /\ aiTimers = {}
  /\ \E i, j \in 1..Len(store) :
       i < j /\ <<store[j].id, store[i].id>> \in replyTo
  /\ \A i \in 1..Len(messages) : ~messages[i].isFromAgent

(* C30: the tracker never holds a room entry with an empty member set; an   *)
(* entry appears only by a join-chat for that room (and every join-chat     *)
(* leaves its room with an entry), and an entry disappears only when a      *)
(* leave-chat for that room or a disconnect removes its last member.        *)
NoEmptyRoomEntry ==
  /\ \A r \in DOMAIN chatRooms : chatRooms[r] # {}
  /\ [][ /\ \A r \in DOMAIN chatRooms' : chatRooms'[r] # {}
         /\ \A r \in DOMAIN chatRooms' \ DOMAIN chatRooms :
              lastOp'.kind = "join-chat" /\ lastOp'.chatId = r
         /\ \A r \in DOMAIN chatRooms \ DOMAIN chatRooms' :
              /\ chatRooms[r] = {lastOp'.userId}
              /\ \/ lastOp'.kind = "leave-chat" /\ lastOp'.chatId = r
                 \/ lastOp'.kind = "disconnect"
         /\ \A r \in DOMAIN chatRooms \cap DOMAIN chatRooms' :
              chatRooms'[r] # chatRooms[r] =>
                lastOp'.kind \in {"join-chat", "leave-chat", "disconnect"}
         /\ lastOp'.kind = "join-chat" =>
              lastOp'.chatId \in DOMAIN chatRooms'
       ]_allVars

(* C30 witness: a leave-chat has removed the last member of its room, whose *)
(* entry is gone, while another room still has its entry.                   *)
LastMemberLeft ==
  /\ lastOp.kind = "leave-chat"
  /\ lastOp.chatId \notin DOMAIN chatRooms
  /\ lastOp.userId = handshake[lastOp.socket]
  /\ lastOp.chatId \notin socketRooms[lastOp.socket]
  /\ \E r \in DOMAIN chatRooms : lastOp.userId \in chatRooms[r]

(* C26: a message sent while the live channel is unavailable, whose        *)
(* fallback request fails or is never answered, reaches a terminal outcome *)
(* with the client no longer loading.                                      *)
FallbackSendTerminates ==
  \A k \in SendIds :
    (sends[k].pc = "posting") ~> (sends[k].pc = "done" /\ ~loading)

(* C22: once the client has left a room, no timer callback and no pending  *)
(* fetch started for that room changes the transcript or issues another    *)
(* request: a reconciliation poll of a send made in the room that is no    *)
(* longer selected neither replaces the transcript nor starts a fetch.     *)
LeftRoomCallbacksInert ==
  [][ \A k \in PageSendIds :
        ( /\ selectedChatId = OtherChat
          /\ pageSends[k].pc \in {"timer", "polling", "answered"}
          /\ pageSends'[k] # pageSends[k] )
        => /\ pageMessages' = pageMessages
           /\ pageSends'[k].pc # "polling"
    ]_allVars

(* C23: every connect of the hook's socket opens a session that is in no   *)
(* room and makes the hook emit, as the first packet of that session, a    *)
(* join-chat for the open room; when the server has handled that packet    *)
(* the session is subscribed to the open room and the user is registered   *)
(* in it, and stays so while the session lasts.                            *)
ReconnectRejoins ==
  [][ /\ (~isConnected /\ isConnected') =>
           /\ wsOut' = <<[event |-> "join-chat", chatId |-> OpenChat,
                          userId |-> OpenUser]>>
           /\ wsSeen' = 0
           /\ HookSock \in connected'
           /\ socketRooms'[HookSock] = {}
      /\ (wsSeen = 0 /\ wsSeen' = 1) =>
           /\ lastOp'.kind = "join-chat"
           /\ socketRooms'[HookSock] = {OpenChat}
           /\ OpenChat \in DOMAIN chatRooms'
           /\ OpenUser \in chatRooms'[OpenChat]
      /\ (isConnected' /\ wsSeen' >= 1) =>
           /\ OpenChat \in socketRooms'[HookSock]
           /\ OpenUser \in chatRooms'[OpenChat]
    ]_allVars

(* C23 witness: the hook's socket has reconnected and its second session   *)
(* is subscribed to the open room.                                         *)
Resubscribed ==
  /\ sessions = 2
  /\ isConnected
  /\ wsSeen >= 1
  /\ OpenChat \in socketRooms[HookSock]

(* C25: every transcript entry has a status among sending, sent,           *)
(* delivered and read, and the status of a message never moves backward    *)
(* along that order.                                                       *)
StatusOnlyForward ==
  [][ \A j \in 1..Len(messages') :
        /\ "status" \in DOMAIN messages'[j]
        /\ messages'[j].status \in {"sending", "sent", "delivered", "read"}
        /\ \A i \in 1..Len(messages) :
             messages[i].id = messages'[j].id =>
               Rank(messages'[j].status) >= Rank(messages[i].status)
    ]_allVars

(* C27: the transcript holds one entry for each message the user has sent: *)
(* the broadcast of a live send that comes back to the sender adds none.   *)
EchoSuppressed ==
  Cardinality({i \in 1..Len(messages) :
                 \/ \E k \in SendIds : messages[i].id = LocalId(k)
                 \/ /\ "userId" \in DOMAIN messages[i]
                    /\ messages[i].userId = OpenUser}) <= sendCount

(* C24: typing=true is emitted only by a keystroke that leaves the input   *)
(* non-blank, and at most once per step; a typing=false is emitted only    *)
(* when the quiet period ends a typing episode, once, and nothing else is  *)
(* emitted until the next keystroke.                                       *)
TypingDebounced ==
  [][ /\ Emitted(wsOut', "user-typing") > Emitted(wsOut, "user-typing") =>
           /\ input' # input
           /\ Trim(input') # ""
           /\ Emitted(wsOut', "user-typing")
                = Emitted(wsOut, "user-typing") + 1
      /\ Emitted(wsOut', "user-stopped-typing")
           > Emitted(wsOut, "user-stopped-typing") =>
           /\ isTyping
           /\ input' = input
           /\ Emitted(wsOut', "user-stopped-typing")
                = Emitted(wsOut, "user-stopped-typing") + 1
    ]_allVars

(* C29: a GET for room R with the user header returns exactly the          *)
(* envelopes stored for R, in the order of their appending, none of        *)
(* another room, and changes nothing stored; a GET or POST without the     *)
(* user header is rejected and stores nothing.                             *)
GetReturnsRoomInOrder ==
  [][ /\ (http' # http /\ http'.method = "GET") =>
           /\ store' = store
           /\ aiTimers' = aiTimers
           /\ IF http'.userId = NoUser
              THEN http'.status = 400 /\ http'.messages = <<>>
              ELSE http'.chatId # "" =>
                     /\ http'.status = 200
                     /\ Len(http'.messages) =
                          Cardinality({i \in 1..Len(store) :
                                         store[i].chatId = http'.chatId})
                     /\ \A j \in 1..Len(http'.messages) :
                          /\ http'.messages[j].chatId = http'.chatId
                          /\ \E i \in 1..Len(store) :
                               /\ store[i].id = http'.messages[j].id
                               /\ store[i].content = http'.messages[j].content
                               /\ Cardinality({h \in 1..i :
                                    store[h].chatId = http'.chatId}) = j
      /\ (http' # http /\ http'.method = "POST" /\ http'.userId = NoUser) =>
           /\ http'.status = 400
           /\ store' = store
           /\ aiTimers' = aiTimers
    ]_allVars

(* C29 witness: a GET has returned the envelopes of its room, a user's     *)
(* message and the agent's reply, while the route also stores an envelope  *)
(* of the other room.                                                      *)
RoomListedAmongOthers ==
  /\ http.method = "GET"
  /\ http.status = 200
  /\ Len(http.messages) >= 2
  /\ \E i \in 1..Len(store) : store[i].chatId \notin {http.chatId, ""}

----------------------------------------------------------------------------
(* Properties of the registries, of the two channels together and of the   *)
(* client under re-renders and overlapping requests                        *)

(* C31: the connection table holds exactly the live sessions that gave a   *)
(* userId at connect, each under that userId; the disconnect of a session  *)
(* that is not in the table changes neither the table nor any member set   *)
(* and emits no event.                                                     *)
ConnectionTableExact ==
  /\ DOMAIN activeConnections = {s \in connected : handshake[s] # NoUser}
  /\ [][ /\ DOMAIN activeConnections'
              = {s \in connected' : handshake'[s] # NoUser}
         /\ \A s \in DOMAIN activeConnections' :
              activeConnections'[s] = handshake'[s]
         /\ ( /\ lastOp'.kind = "disconnect"
              /\ lastOp'.socket \notin DOMAIN activeConnections )
            => /\ activeConnections' = activeConnections
               /\ chatRooms' = chatRooms
               /\ \A t \in Sockets : emitted'[t] = <<>>
       ]_allVars

(* C31 witness: a session that gave no userId has disconnected while the   *)
(* table holds another session and the tracker holds a room.               *)
UnregisteredDisconnected ==
  /\ lastOp.kind = "disconnect"
  /\ lastOp.userId = NoUser
  /\ DOMAIN activeConnections # {}
  /\ DOMAIN chatRooms # {}

(* C32: user U is in the tracker's member set of room R exactly when some  *)
(* live session that joined as U is subscribed to R in the transport.      *)
TrackerMatchesTransport ==
  \A r \in Rooms, u \in Users :
    (r \in DOMAIN chatRooms /\ u \in chatRooms[r])
      <=> \E s \in connected : handshake[s] = u /\ r \in socketRooms[s]

(* C33: when two live sessions of user U are both subscribed to room R, a  *)
(* leave-chat for R or a disconnect of one of them leaves U in R's member  *)
(* set and delivers no user-left for U.                                    *)
OtherSessionKeepsUser ==
  [][ \A s, t \in connected, r \in Rooms :
        ( /\ s # t
          /\ handshake[s] = handshake[t]
          /\ r \in socketRooms[s] \cap socketRooms[t]
          /\ lastOp'.socket = s
          /\ \/ lastOp'.kind = "leave-chat" /\ lastOp'.chatId = r
             \/ lastOp'.kind = "disconnect" )
        => /\ r \in DOMAIN chatRooms'
           /\ handshake[t] \in chatRooms'[r]
           /\ \A x \in Sockets :
                \A i \in 1..Len(emitted'[x]) :
                  ~( /\ emitted'[x][i].kind = "user-left"
                     /\ emitted'[x][i].payload.userId = handshake[t] )
    ]_allVars

(* C34: a send-message, typing or leave-chat request naming room R         *)
(* delivers an event or changes a member set only if the requesting        *)
(* session is subscribed to R and names its own connect-time userId.       *)
OnlyMembersAffectRoom ==
  [][ ( /\ lastOp'.kind \in {"send-message", "user-typing",
                             "user-stopped-typing", "leave-chat"}
        /\ \/ \E t \in Sockets : emitted'[t] # <<>>
           \/ chatRooms' # chatRooms )
      => /\ lastOp'.chatId \in socketRooms[lastOp'.socket]
         /\ lastOp'.userId = handshake[lastOp'.socket]
    ]_allVars

(* C35: a message sent over the live channel is in every list a later      *)
(* fallback fetch returns for the room: an entry that reached 'sent' by a  *)
(* live send is still in the transcript after a fetch has replaced it.     *)
LiveSentSurvivesFetch ==
  [][ FetchApplied =>
        \A k \in SendIds : \A i \in 1..Len(messages) :
          ( /\ messages[i].id = LocalId(k)
            /\ messages[i].status = "sent"
            /\ sends[k].pc = "done"
            /\ sends[k].envelope = NoId )
          => \E j \in 1..Len(messages') :
               /\ messages'[j].content = messages[i].content
               /\ ~messages'[j].isFromAgent
    ]_allVars

(* C36: while the client keeps its room open and the transport stays       *)
(* available, a re-render does not close the client's session and the      *)
(* other members of the room receive no user-left or user-joined for it:   *)
(* a keystroke leaves the session connected and delivers no presence       *)
(* event to any other session.                                             *)
RerenderKeepsSession ==
  [][ input' # input =>
        /\ HookSock \in connected => HookSock \in connected'
        /\ \A t \in Sockets \ {HookSock} :
             \A i \in 1..Len(emitted'[t]) :
               emitted'[t][i].kind \notin {"user-left", "user-joined"}
    ]_allVars

(* C37: the typing events a client emits alternate, no two in a row with   *)
(* the same flag, and a typing=true is emitted only by a step that changes *)
(* the local input, never by a re-render or by the debounce timer.         *)
TypingAlternates ==
  [][ LET ev == SelectSeq(wsOut', LAMBDA p :
                   p.event \in {"user-typing", "user-stopped-typing"})
      IN  /\ \A i \in 1..(Len(ev) - 1) : ev[i].event # ev[i + 1].event
          /\ Len(wsOut') > Len(wsOut) =>
               ( wsOut'[Len(wsOut')].event = "user-typing" => input' # input )
    ]_allVars

(* C38: no two entries of the transcript have the same id, whatever the    *)
(* interleaving of sends, live pushes (also delivered twice) and fetch     *)
(* replacements.                                                           *)
TranscriptIdsUnique ==
  \A i, j \in 1..Len(messages) : i # j => messages[i].id # messages[j].id

(* C38 witness: the transcript holds a pushed message next to another      *)
(* entry, and the push is about to be delivered once more.                 *)
PushShownAndPendingAgain ==
  /\ Len(messages) >= 2
  /\ inbox[HookSock] # <<>>
  /\ Head(inbox[HookSock]).kind = "new-message"
  /\ \E i \in 1..Len(messages) :
       messages[i].id = Head(inbox[HookSock]).payload.id

(* C39: a baseline fetch issued before a send's own fetch and answered     *)
(* after it does not overwrite the newer transcript: when its response is  *)
(* applied, the stored message of the send that the newer fetch has shown  *)
(* is still shown.                                                         *)
StaleFetchIgnored ==
  [][ (poll.pc = "responded" /\ poll.ok /\ poll'.pc = "idle") =>
        \A k \in SendIds :
          ( /\ sends[k].envelope # NoId
            /\ \E i \in 1..Len(messages) : messages[i].id = sends[k].envelope )
          => \E i \in 1..Len(messages') : messages'[i].id = sends[k].envelope
    ]_allVars

====
